---------------------------- MODULE Spec2Model ----------------------------
(***************************************************************************)
(* CipherBox desktop FUSE engine: the inode table, the dispatcher          *)
(* callbacks (create, mkdir, unlink, rmdir, rename, open, write, read,     *)
(* release, lookup, readdir, getattr), the completion channels they drain, *)
(* and the background publish pipelines with the PublishCoordinator.       *)
(*                                                                         *)
(* Encodings.  Record names (IPNS names) and content addresses (CIDs) are  *)
(* natural numbers; the empty CID "" is 0.  A freshly generated folder key *)
(* pair yields the record name of the inode it was generated for; a        *)
(* release generates a fresh file key, identified by the upload number,    *)
(* and the upload of its ciphertext yields the CID of that upload number.  *)
(* File bytes are sequences over a small alphabet.  Time is in seconds.    *)
(***************************************************************************)
EXTENDS Integers, Sequences, FiniteSets, TLC

\* ------------------------------------------------------------------ bounds
MaxIno == 3
MaxTime == 30
TickSecs == 30
MaxThreads == 2
MaxUploads == 2
MaxFh == 2
MaxRefresh == 1
MaxRemoteSeq == 0
MaxManifestLen == 1
MaxRead == 4

\* ------------------------------------------------------- program constants
ROOT_INO == 1
COOLDOWN_SECS == 30
METADATA_TTL == 30
MAX_CACHE_SIZE == 268435456

RootName == 1
NoCid == 0
RemoteCid == 90
RemoteFolderName == 80
RemoteFileName == 81

Names == {"a", "b"}

\* ----------------------------------------------------------------- helpers
Max(x, y) == IF x > y THEN x ELSE y
Min(x, y) == IF x < y THEN x ELSE y

Range(s) == {s[i] : i \in DOMAIN s}

MapPut(m, k, v) == [x \in (DOMAIN m) \cup {k} |-> IF x = k THEN v ELSE m[x]]
MapDel(m, k) == [x \in (DOMAIN m) \ {k} |-> m[x]]
EmptyMap == [x \in {} |-> 0]

Without(s, v) == LET Keep(c) == c /= v IN SelectSeq(s, Keep)

\* The two spellings of one accented name: the decomposed (NFD) spelling, a
\* base letter followed by a combining accent, and the composed (NFC) one.
Decomposed == "e+acute"
Composed == "e-acute"

\* unicode_normalization::nfc on the names of the model: the decomposed
\* spelling is composed, every other name is already in normal form.
NFC(n) == IF n = Decomposed THEN Composed ELSE n

\* The platform-noise names of the model: one member of the list matched by
\* is_platform_special.
PlatformNames == {".DS_Store"}

\* is_platform_special
is_platform_special(name) == name \in PlatformNames

\* ------------------------------------------------------------- inode table
\* InodeData.  children_some = FALSE is `children: None`.
InodeData(ino, parent_ino, name, kind) ==
    [ino |-> ino, parent_ino |-> parent_ino, name |-> name, kind |-> kind,
     children_some |-> kind /= "File", children |-> <<>>,
     ipns_name |-> 0, has_ipns_key |-> FALSE, children_loaded |-> FALSE,
     cid |-> NoCid, key |-> 0, size |-> 0, attr_size |-> 0,
     file_meta_ipns_name |-> 0, file_meta_resolved |-> TRUE]

\* InodeTable::new: the root, its own parent, with an empty children list.
NewTable ==
    [inodes |-> (ROOT_INO :> [InodeData(ROOT_INO, ROOT_INO, "", "Root")
                                EXCEPT !.ipns_name = RootName,
                                       !.has_ipns_key = TRUE]),
     name_to_ino |-> EmptyMap,
     next_ino |-> 2]

Has(t, ino) == ino \in DOMAIN t.inodes
Get(t, ino) == t.inodes[ino]
IsDir(t, ino) == Has(t, ino) /\ Get(t, ino).kind \in {"Root", "Folder"}

\* InodeTable::insert
Insert(t, data) ==
    [t EXCEPT !.name_to_ino = MapPut(@, <<data.parent_ino, data.name>>, data.ino),
              !.inodes = MapPut(@, data.ino, data)]

\* InodeTable::find_child; 0 is None.
find_child(t, parent_ino, name) ==
    IF <<parent_ino, name>> \in DOMAIN t.name_to_ino
    THEN t.name_to_ino[<<parent_ino, name>>] ELSE 0

\* InodeTable::remove
Remove(t, ino) ==
    IF ~Has(t, ino) THEN t
    ELSE LET data == Get(t, ino)
             t1 == [t EXCEPT !.inodes = MapDel(@, ino),
                             !.name_to_ino = MapDel(@, <<data.parent_ino, data.name>>)]
         IN IF Has(t1, data.parent_ino) /\ Get(t1, data.parent_ino).children_some
            THEN [t1 EXCEPT !.inodes[data.parent_ino].children = Without(@, ino)]
            ELSE t1

ChildrenOf(t, ino) ==
    IF Has(t, ino) /\ Get(t, ino).children_some THEN Get(t, ino).children ELSE <<>>

\* ------------------------------------------------------- folder manifests
\* FolderChild::Folder (FolderEntry).  key_ok: the ECIES unwrap of the wrapped
\* folder key and record key succeeds.
FolderEntry(name, ipns_name, key_ok) ==
    [type |-> "folder", name |-> name, ipns_name |-> ipns_name, key_ok |-> key_ok,
     cid |-> NoCid, key |-> 0, size |-> 0]

\* FolderChild::File (FileEntry); in a v2 manifest a FilePointer whose
\* ipns_name is the per-file record name.
FileEntry(name, cid, key, size) ==
    [type |-> "file", name |-> name, ipns_name |-> 0, key_ok |-> TRUE,
     cid |-> cid, key |-> key, size |-> size]

\* FolderChildV2::File (FilePointer): the name and the record name of the
\* per-file metadata.
FilePointer(name, ipns_name) == [FileEntry(name, NoCid, 0, 0) EXCEPT !.ipns_name = ipns_name]

FolderMetadata(version, children) == [version |-> version, children |-> children]

ManifestNames(metadata) == {metadata.children[i].name : i \in DOMAIN metadata.children}

\* A first loop that removes through InodeTable::remove, which also prunes
\* the parent's children list.
RECURSIVE RemoveMissingPruning(_, _, _, _)
RemoveMissingPruning(t, parent_ino, olds, new_names) ==
    IF olds = <<>> THEN t
    ELSE RemoveMissingPruning(IF Has(t, Head(olds)) /\ Get(t, Head(olds)).name \notin new_names
                              THEN Remove(t, Head(olds)) ELSE t,
                              parent_ino, Tail(olds), new_names)

\* populate_folder, first loop: children that are absent from the new
\* manifest are removed from the id map and the name index.
RECURSIVE RemoveMissing(_, _, _, _)
RemoveMissing(t, parent_ino, olds, new_names) ==
    IF olds = <<>> THEN t
    ELSE LET old == Head(olds)
             t1 == IF Has(t, old) /\ Get(t, old).name \notin new_names
                   THEN [t EXCEPT !.inodes = MapDel(@, old),
                                  !.name_to_ino = MapDel(@, <<parent_ino, Get(t, old).name>>)]
                   ELSE t
         IN RemoveMissing(t1, parent_ino, Tail(olds), new_names)

\* The inode built for a subfolder child (v1 and v2 alike).
PopulatedFolder(t, parent_ino, folder, ino, existing) ==
    LET old_some == existing /= 0 /\ Has(t, ino)
        ch_some == IF existing /= 0 THEN old_some /\ Get(t, ino).children_some ELSE TRUE
        ch == IF existing /= 0 /\ ch_some THEN Get(t, ino).children ELSE <<>>
        loaded == old_some /\ Get(t, ino).kind = "Folder" /\ Get(t, ino).children_loaded
    IN [InodeData(ino, parent_ino, folder.name, "Folder")
          EXCEPT !.ipns_name = folder.ipns_name, !.has_ipns_key = TRUE,
                 !.children_loaded = loaded, !.children_some = ch_some,
                 !.children = ch]

\* The inode built for a file child of a v1 manifest.
PopulatedFile(parent_ino, file, ino) ==
    [InodeData(ino, parent_ino, file.name, "File")
       EXCEPT !.cid = file.cid, !.key = file.key, !.size = file.size,
              !.attr_size = file.size]

\* The inode built for a FilePointer child of a v2 manifest: resolved data
\* of an existing file inode is kept, otherwise a placeholder is stored.
PopulatedFilePointer(t, parent_ino, fp, ino, existing) ==
    IF existing /= 0 /\ Has(t, existing) /\ Get(t, existing).kind = "File"
       /\ Get(t, existing).file_meta_resolved
    THEN [Get(t, existing) EXCEPT !.ino = ino, !.parent_ino = parent_ino,
                                  !.name = fp.name, !.attr_size = Get(t, existing).size,
                                  !.children_some = FALSE, !.children = <<>>]
    ELSE [InodeData(ino, parent_ino, fp.name, "File")
            EXCEPT !.file_meta_ipns_name = fp.ipns_name,
                   !.file_meta_resolved = FALSE]

\* populate_folder / populate_folder_v2, second loop.  acc = [t, child_inos,
\* ok]; a failing key unwrap returns the error at once (`?`), after the id
\* for the child has been allocated.
RECURSIVE InsertChildren(_, _, _, _)
InsertChildren(acc, parent_ino, children, v2) ==
    IF children = <<>> \/ ~acc.ok THEN acc
    ELSE LET child == Head(children)
             t == acc.t
             existing == find_child(t, parent_ino, child.name)
             ino == IF existing /= 0 THEN existing ELSE t.next_ino
             t1 == IF existing /= 0 THEN t ELSE [t EXCEPT !.next_ino = @ + 1]
             node == IF child.type = "folder"
                     THEN PopulatedFolder(t1, parent_ino, child, ino, existing)
                     ELSE IF v2 THEN PopulatedFilePointer(t1, parent_ino, child, ino, existing)
                          ELSE PopulatedFile(parent_ino, child, ino)
         IN IF child.type = "folder" /\ ~child.key_ok
            THEN [acc EXCEPT !.t = t1, !.ok = FALSE]
            ELSE InsertChildren([t |-> Insert(t1, node),
                                 child_inos |-> Append(acc.child_inos, ino),
                                 ok |-> TRUE],
                                parent_ino, Tail(children), v2)

\* populate_folder (v2 = FALSE) and populate_folder_v2 (v2 = TRUE).
\* Returns [t, ok, changed]; changed: the parent's mtime/ctime were bumped.
\* The tail of populate_folder: the parent's children list is replaced by
\* the ids collected in the second loop (r).
SetChildren(r, parent_ino) ==
    IF ~r.ok THEN [t |-> r.t, ok |-> FALSE, changed |-> FALSE]
    ELSE IF ~Has(r.t, parent_ino) THEN [t |-> r.t, ok |-> TRUE, changed |-> FALSE]
    ELSE [t |-> [r.t EXCEPT !.inodes[parent_ino].children = r.child_inos,
                            !.inodes[parent_ino].children_some = TRUE,
                            !.inodes[parent_ino].children_loaded =
                                IF r.t.inodes[parent_ino].kind = "Folder" THEN TRUE ELSE @],
          ok |-> TRUE,
          changed |-> ChildrenOf(r.t, parent_ino) /= r.child_inos]

PopulateFolderV(t, parent_ino, metadata, v2) ==
    SetChildren(
        InsertChildren([t |-> RemoveMissing(t, parent_ino, ChildrenOf(t, parent_ino),
                                            ManifestNames(metadata)),
                        child_inos |-> <<>>, ok |-> TRUE],
                       parent_ino, metadata.children, v2),
        parent_ino)

populate_folder(t, parent_ino, metadata) == PopulateFolderV(t, parent_ino, metadata, FALSE)

populate_folder_v2(t, parent_ino, metadata) == PopulateFolderV(t, parent_ino, metadata, TRUE)

\* populate_folder_any: dispatch on the manifest version.
populate_folder_any(t, parent_ino, metadata) ==
    IF metadata.version = "v2" THEN populate_folder_v2(t, parent_ino, metadata)
    ELSE populate_folder(t, parent_ino, metadata)

\* resolve_file_pointer: fills in a FilePointer inode after its per-file
\* record was resolved.
resolve_file_pointer(t, ino, cid, key, size) ==
    IF ~Has(t, ino) THEN t
    ELSE [t EXCEPT !.inodes[ino].file_meta_ipns_name =
                       IF t.inodes[ino].kind = "File" THEN @ ELSE 0,
                   !.inodes[ino].kind = "File",
                   !.inodes[ino].cid = cid, !.inodes[ino].key = key,
                   !.inodes[ino].size = size, !.inodes[ino].attr_size = size,
                   !.inodes[ino].file_meta_resolved = TRUE,
                   !.inodes[ino].ipns_name = 0, !.inodes[ino].has_ipns_key = FALSE,
                   !.inodes[ino].children_loaded = FALSE]

\* get_unresolved_file_pointers
get_unresolved_file_pointers(t) ==
    {i \in DOMAIN t.inodes : t.inodes[i].kind = "File"
                             /\ t.inodes[i].file_meta_ipns_name /= 0
                             /\ ~t.inodes[i].file_meta_resolved}

\* ------------------------------------------------------------------ caches
\* An expiry test that still accepts an entry of exactly the TTL.
MetadataCacheFreshAtTtl(mc, ipns_name, time) ==
    ipns_name \in DOMAIN mc /\ time - mc[ipns_name].fetched_at <= METADATA_TTL

\* MetadataCache::get: the entry, if present and younger than the TTL.
MetadataCacheFresh(mc, ipns_name, time) ==
    ipns_name \in DOMAIN mc /\ time - mc[ipns_name].fetched_at < METADATA_TTL

\* MetadataCache::set
MetadataCacheSet(mc, ipns_name, cid, time) ==
    MapPut(mc, ipns_name, [cid |-> cid, fetched_at |-> time])

\* MetadataCache::get: the reply; `found` is Some, with the entry's cid
\* and fetch time.
MetadataCacheGet(mc, ipns_name, time) ==
    IF MetadataCacheFresh(mc, ipns_name, time)
    THEN [found |-> TRUE, cid |-> mc[ipns_name].cid, at |-> mc[ipns_name].fetched_at]
    ELSE [found |-> FALSE, cid |-> NoCid, at |-> 0]

\* MetadataCache::invalidate
MetadataCacheInvalidate(mc, ipns_name) == MapDel(mc, ipns_name)

\* MetadataCache::clear
MetadataCacheClear == EmptyMap

NewContentCache == [entries |-> EmptyMap, current_size |-> 0]

\* An eviction that drops the entry with the newest access time.
evict_mru(cc) ==
    LET mru == CHOOSE c \in DOMAIN cc.entries :
                   \A d \in DOMAIN cc.entries :
                       cc.entries[c].accessed_at >= cc.entries[d].accessed_at
    IN [entries |-> MapDel(cc.entries, mru),
        current_size |-> Max(0, cc.current_size - cc.entries[mru].size)]

\* ContentCache::evict_lru: drop the entry with the oldest access time.
evict_lru(cc) ==
    LET lru == CHOOSE c \in DOMAIN cc.entries :
                   \A d \in DOMAIN cc.entries :
                       cc.entries[c].accessed_at <= cc.entries[d].accessed_at
    IN [entries |-> MapDel(cc.entries, lru),
        current_size |-> Max(0, cc.current_size - cc.entries[lru].size)]

\* A set that evicts nothing.
EvictNothing(cc, size) == cc

RECURSIVE EvictUntilFits(_, _)
EvictUntilFits(cc, size) ==
    IF cc.current_size + size > MAX_CACHE_SIZE /\ DOMAIN cc.entries /= {}
    THEN EvictUntilFits(evict_lru(cc), size)
    ELSE cc

\* ContentCache::set, for data of `size` bytes (size is data.len()).
ContentCacheStore(cc, cid, data, size, time) ==
    LET c1 == IF cid \in DOMAIN cc.entries
              THEN [entries |-> MapDel(cc.entries, cid),
                    current_size |-> Max(0, cc.current_size - cc.entries[cid].size)]
              ELSE cc
        c2 == EvictUntilFits(c1, size)
    IN [entries |-> MapPut(c2.entries, cid,
                           [data |-> data, accessed_at |-> time, size |-> size]),
        current_size |-> c2.current_size + size]

\* ContentCache::set
ContentCacheSet(cc, cid, data, time) == ContentCacheStore(cc, cid, data, Len(data), time)

\* ContentCache::clear
ContentCacheClear == [entries |-> EmptyMap, current_size |-> 0]

\* ContentCache::get: a hit refreshes the access time.
ContentCacheHit(cc, cid) == cid \in DOMAIN cc.entries

ContentCacheTouch(cc, cid, time) ==
    IF ContentCacheHit(cc, cid) THEN [cc EXCEPT !.entries[cid].accessed_at = time] ELSE cc

\* ------------------------------------------------------------ write buffer
\* OpenFileHandle::new_read / new_write.  temp = FALSE is `temp_path: None`.
new_read(ino) ==
    [ino |-> ino, temp |-> FALSE, buf |-> <<>>, dirty |-> FALSE,
     cached_some |-> FALSE, cached_content |-> <<>>]

new_write(ino, existing_content) ==
    [ino |-> ino, temp |-> TRUE, buf |-> existing_content, dirty |-> FALSE,
     cached_some |-> FALSE, cached_content |-> <<>>]

\* seek + write_all on the temp file: a gap before the offset reads as zeros.
WriteBytes(buf, offset, data) ==
    [i \in 1..Max(Len(buf), offset + Len(data)) |->
        IF i > offset /\ i <= offset + Len(data) THEN data[i - offset]
        ELSE IF i <= Len(buf) THEN buf[i] ELSE 0]

\* A write that ignores the offset and appends.
write_append(handle, offset, data) ==
    [handle EXCEPT !.buf = @ \o data, !.dirty = TRUE]

\* OpenFileHandle::write_at
write_at(handle, offset, data) ==
    [handle EXCEPT !.buf = WriteBytes(@, offset, data), !.dirty = TRUE]

\* content[start..min(start + size, len)], empty when start >= len.
Slice(content, offset, size) ==
    IF offset >= Len(content) THEN <<>>
    ELSE SubSeq(content, offset + 1, Min(offset + size, Len(content)))

\* OpenFileHandle::read_at
read_at(handle, offset, size) == Slice(handle.buf, offset, size)

\* -------------------------------------------------------------- write queue
DEFAULT_MAX_RETRIES == 5

\* WriteQueue::new
NewWriteQueue(max_retries) == [queue |-> <<>>, max_retries |-> max_retries]

\* A QueuedWrite, by its id, with the number of failed attempts.
QueuedWrite(id) == [id |-> id, retries |-> 0]

\* WriteQueue::enqueue
enqueue(wq, write) == [wq EXCEPT !.queue = Append(@, write)]

\* A failed item that is put in front of the retained ones.
RetainFront(remaining, item) == <<item>> \o remaining

\* remaining.push_back(item)
Retain(remaining, item) == Append(remaining, item)

\* A retry budget that is used up one failure early.
ExhaustedEarly(item, max_retries) == item.retries >= max_retries

\* item.retries > self.max_retries, after the increment
Exhausted(item, max_retries) == item.retries > max_retries

\* The loop of WriteQueue::process: every item is popped from the front and
\* handed to the handler (`handled` is the handler's call log); `fails` are
\* the ids for which the handler returns Err.
RECURSIVE ProcessLoop(_, _, _, _, _, _)
ProcessLoop(queue, remaining, handled, processed, fails, max_retries) ==
    IF queue = <<>>
    THEN [queue |-> remaining, handled |-> handled, processed |-> processed]
    ELSE LET item == Head(queue)
             log == Append(handled, item.id)
             failed == [item EXCEPT !.retries = @ + 1]
         IN IF item.id \notin fails
            THEN ProcessLoop(Tail(queue), remaining, log, processed + 1, fails, max_retries)
            ELSE IF Exhausted(failed, max_retries)
            THEN ProcessLoop(Tail(queue), remaining, log, processed, fails, max_retries)
            ELSE ProcessLoop(Tail(queue), Retain(remaining, failed), log, processed, fails,
                             max_retries)

\* WriteQueue::process
process(wq, fails) ==
    IF Len(wq.queue) = 0
    THEN [wq |-> wq, handled |-> <<>>, processed |-> 0]
    ELSE LET r == ProcessLoop(wq.queue, <<>>, <<>>, 0, fails, wq.max_retries)
         IN [wq |-> [wq EXCEPT !.queue = r.queue], handled |-> r.handled,
             processed |-> r.processed]

\* ------------------------------------------------------------------ AES-CTR
\* Bytes are 0..ByteMod-1 and the 64-bit block counter is kept to
\* CounterBits bits, with the same wrap-around.  Keystream stands for the
\* AES encryption of the counter block (nonce, counter); combining a byte
\* with the keystream is an involution, as XOR is.
AES_BLOCK_SIZE == 16
ByteMod == 11
CounterBits == 3
CounterMod == 2 ^ CounterBits

Keystream(nonce, counter, k) == (nonce + counter * 7 + k * 3) % ByteMod

Combine(byte, ks) == (ks + ByteMod - byte) % ByteMod

\* Ctr64BE: cipher.apply_keystream(data) for a cipher created with the
\* counter block (nonce, counter).
apply_keystream(data, nonce, counter) ==
    [i \in 1..Len(data) |->
        Combine(data[i], Keystream(nonce, (counter + (i - 1) \div AES_BLOCK_SIZE) % CounterMod,
                                   (i - 1) % AES_BLOCK_SIZE))]

\* encrypt_aes_ctr
encrypt_aes_ctr(plaintext, iv) ==
    [ok |-> TRUE, err |-> "", data |-> apply_keystream(plaintext, iv.nonce, iv.counter)]

\* decrypt_aes_ctr
decrypt_aes_ctr(ciphertext, iv) == encrypt_aes_ctr(ciphertext, iv)

\* A range decrypt that keeps the counter of the first block.
BaseCounter(iv, start_block) == iv.counter

\* base_counter.wrapping_add(start_block as u64)
RangeCounter(iv, start_block) == (iv.counter + start_block) % CounterMod

\* decrypt_aes_ctr_range
decrypt_aes_ctr_range(ciphertext, iv, start_byte, end_byte) ==
    IF start_byte > end_byte THEN [ok |-> FALSE, err |-> "InvalidRange", data |-> <<>>]
    ELSE IF Len(ciphertext) = 0 \/ start_byte >= Len(ciphertext)
    THEN [ok |-> TRUE, err |-> "", data |-> <<>>]
    ELSE LET clamped_end == Min(end_byte, Max(0, Len(ciphertext) - 1))
             start_block == start_byte \div AES_BLOCK_SIZE
             end_block == clamped_end \div AES_BLOCK_SIZE
             block_aligned_start == start_block * AES_BLOCK_SIZE
             block_aligned_end == Min((end_block + 1) * AES_BLOCK_SIZE, Len(ciphertext))
             decrypted == apply_keystream(
                              SubSeq(ciphertext, block_aligned_start + 1, block_aligned_end),
                              iv.nonce, RangeCounter(iv, start_block))
             offset_in_first_block == start_byte - block_aligned_start
             requested_length == clamped_end - start_byte + 1
         IN IF clamped_end < start_byte THEN [ok |-> TRUE, err |-> "", data |-> <<>>]
            ELSE [ok |-> TRUE, err |-> "",
                  data |-> SubSeq(decrypted, offset_in_first_block + 1,
                                  offset_in_first_block + requested_length)]

\* --------------------------------------------------------- manifest decoding
\* A sealed manifest: whether the key unseals it, and the JSON underneath,
\* which has a version field or not ("none") and children that are inline
\* file entries ("entries"), file pointers ("pointers"), subfolders only
\* ("folders"), or is not a manifest object at all ("garbage").
Sealed(key_ok, version, shape) == [key_ok |-> key_ok, version |-> version, shape |-> shape]

DecodeError(err) == [ok |-> FALSE, err |-> err, variant |-> "", version |-> "", shape |-> ""]

\* serde_json::from_value::<FolderMetadata>: version is a required string,
\* every child a FolderEntry or a FileEntry.
ParsesAsV1(json) == json.version /= "none" /\ json.shape \in {"entries", "folders"}

\* serde_json::from_value::<FolderMetadataV2>: every child a FolderEntry or
\* a FilePointer.
ParsesAsV2(json) == json.version /= "none" /\ json.shape \in {"pointers", "folders"}

Decoded(variant, json) ==
    [ok |-> TRUE, err |-> "", variant |-> variant, version |-> json.version,
     shape |-> json.shape]

\* decrypt_folder_metadata
decrypt_folder_metadata(sealed) ==
    IF ~sealed.key_ok THEN DecodeError("EncryptionFailed")
    ELSE IF ParsesAsV1(sealed) THEN Decoded("V1", sealed)
    ELSE DecodeError("DeserializationFailed")

\* decrypt_any_folder_metadata
decrypt_any_folder_metadata(sealed) ==
    IF ~sealed.key_ok THEN DecodeError("EncryptionFailed")
    ELSE IF sealed.shape = "garbage" THEN DecodeError("DeserializationFailed")
    ELSE IF sealed.version = "v2"
    THEN IF ParsesAsV2(sealed) THEN Decoded("V2", sealed)
         ELSE IF ParsesAsV1(sealed) THEN Decoded("V1", sealed)
         ELSE DecodeError("DeserializationFailed")
    ELSE IF ParsesAsV1(sealed) THEN Decoded("V1", sealed)
    ELSE DecodeError("DeserializationFailed")

\* decrypt_metadata_from_ipfs: the {iv, data} envelope is parsed, then the
\* sealed bytes are handed to decrypt_folder_metadata.
decrypt_metadata_from_ipfs(envelope_ok, sealed) ==
    IF ~envelope_ok THEN DecodeError("envelope")
    ELSE LET r == decrypt_folder_metadata(sealed)
         IN IF r.ok THEN r ELSE DecodeError("Metadata decryption failed: " \o r.err)

\* ------------------------------------------------------------------- state
VARIABLES
    inodes,            \* CipherBoxFS.inodes: the InodeTable
    metadata_cache,    \* CipherBoxFS.metadata_cache
    content_cache,     \* CipherBoxFS.content_cache
    open_files,        \* CipherBoxFS.open_files: fh -> OpenFileHandle
    next_fh,           \* CipherBoxFS.next_fh
    refresh_rx,        \* channel of PendingRefresh
    mutated_folders,   \* folder ino -> time of the last local mutation
    prefetching,       \* CIDs with a prefetch in flight
    content_rx,        \* channel of PendingContent
    pending_content,   \* ino -> plaintext of an upload in flight
    upload_rx,         \* channel of UploadComplete
    publish_queue,     \* folders with a debounced publish queued
    seq_cache,         \* PublishCoordinator.seq_cache
    publish_locks,     \* PublishCoordinator.publish_locks: name -> holder
    threads,           \* background publish threads, in spawn order
    uploads,           \* file upload threads, by upload number
    refresh_tasks,     \* folder refresh tasks in flight
    prefetch_tasks,    \* content prefetch tasks in flight
    ns,                \* name service: record name -> published records
    now,               \* the clock, in seconds
    netfail,           \* a transport failure or malformed response occurred
    write_queue,       \* SyncDaemon.write_queue: the WriteQueue of offline writes
    call,              \* a call of a crypto function: its arguments and its result
    hist               \* history of local mutations, for the properties

vars == <<inodes, metadata_cache, content_cache, open_files, next_fh, refresh_rx,
          mutated_folders, prefetching, content_rx, pending_content, upload_rx,
          publish_queue, seq_cache, publish_locks, threads, uploads,
          refresh_tasks, prefetch_tasks, ns, now, netfail, write_queue, call, hist>>

\* The state of the sync daemon's queue and of the crypto call, which the
\* filesystem callbacks and the publish threads leave alone.
syncVars == <<write_queue, call>>

fsVars == <<inodes, metadata_cache, content_cache, open_files, next_fh, refresh_rx,
            mutated_folders, prefetching, content_rx, pending_content, upload_rx,
            publish_queue, uploads, refresh_tasks, prefetch_tasks, now, hist>>

pubVars == <<seq_cache, publish_locks, ns>>

\* ------------------------------------------------ remote state (environment)
\* Children other devices may have published: a file "a" and a subfolder
\* "b" whose wrapped keys do or do not unwrap.
RemoteEntries ==
    {FileEntry("a", RemoteCid, RemoteCid, 1)}
    \cup {FolderEntry("b", RemoteFolderName, ok) : ok \in BOOLEAN}

DistinctNames(c) == \A i, j \in DOMAIN c : i /= j => c[i].name /= c[j].name

ChildLists ==
    {c \in UNION {[1..k -> RemoteEntries] : k \in 0..MaxManifestLen} : DistinctNames(c)}

Versions == {"v1"}

Manifests == {FolderMetadata(v, c) : v \in Versions, c \in ChildLists}

\* Plaintext of the remote file blob.
RemoteData == <<7>>

\* ------------------------------------------------------ completion drains
\* drain_upload_completions: set the CID of a file whose CID is still empty,
\* move the pending plaintext to the content cache.
RECURSIVE DrainUploads(_, _, _, _, _)
DrainUploads(t, pend, cc, rx, time) ==
    IF rx = <<>> THEN [inodes |-> t, pending_content |-> pend, content_cache |-> cc]
    ELSE LET result == Head(rx)
             t1 == IF Has(t, result.ino) /\ Get(t, result.ino).kind = "File"
                      /\ Get(t, result.ino).cid = NoCid
                   THEN [t EXCEPT !.inodes[result.ino].cid = result.new_cid]
                   ELSE t
             hit == result.ino \in DOMAIN pend
             cc1 == IF hit THEN ContentCacheSet(cc, result.new_cid, pend[result.ino], time)
                    ELSE cc
             pend1 == IF hit THEN MapDel(pend, result.ino) ELSE pend
         IN DrainUploads(t1, pend1, cc1, Tail(rx), time)

drain_upload_completions == DrainUploads(inodes, pending_content, content_cache, upload_rx, now)

\* drain_refresh_completions, the eager resolution of FilePointers after a
\* v2 manifest was applied: each unresolved pointer is resolved over the
\* network (fp_ok: the resolve, fetch and decrypt succeed).
RECURSIVE ResolvePointers(_, _)
ResolvePointers(t, inos) ==
    IF inos = {} THEN t
    ELSE LET i == CHOOSE x \in inos : \A y \in inos : x <= y
         IN ResolvePointers(resolve_file_pointer(t, i, RemoteCid, RemoteCid, 1), inos \ {i})

\* drain_refresh_completions, after populate_folder_any returned p: the
\* FilePointers of a v2 manifest are resolved.
AfterPopulate(p, refresh, fp_ok) ==
    IF refresh.metadata.version = "v2" /\ fp_ok /\ IsDir(p.t, refresh.ino)
    THEN ResolvePointers(p.t, get_unresolved_file_pointers(p.t))
    ELSE p.t

\* drain_refresh_completions, one completion: the number of blocking
\* network requests (block_with_timeout around resolve_ipns and
\* fetch_content) it makes, one per unresolved FilePointer after a v2
\* manifest was applied.
RefreshNetworkCalls(t, mf, refresh) ==
    IF refresh.ino \in DOMAIN mf \/ refresh.metadata.version /= "v2" THEN 0
    ELSE IF ~IsDir(populate_folder_any(t, refresh.ino, refresh.metadata).t, refresh.ino) THEN 0
    ELSE Cardinality(get_unresolved_file_pointers(
                         populate_folder_any(t, refresh.ino, refresh.metadata).t))

\* A drain that drops every completion without applying it.
ApplyRefreshSkipped(t, mf, refresh, fp_ok) == t

\* drain_refresh_completions, one completion.
ApplyRefresh(t, mf, refresh, fp_ok) ==
    IF refresh.ino \in DOMAIN mf THEN t
    ELSE AfterPopulate(populate_folder_any(t, refresh.ino, refresh.metadata), refresh, fp_ok)

RECURSIVE DrainRefreshes(_, _, _, _, _, _)
DrainRefreshes(t, mf, mc, rx, time, fp_ok) ==
    IF rx = <<>> THEN [inodes |-> t, metadata_cache |-> mc]
    ELSE DrainRefreshes(ApplyRefresh(t, mf, Head(rx), fp_ok), mf,
                        MetadataCacheSet(mc, Head(rx).ipns_name, Head(rx).cid, time),
                        Tail(rx), time, fp_ok)

\* The blocking network requests of one run of the receive loop.
RECURSIVE DrainNetworkCalls(_, _, _, _)
DrainNetworkCalls(t, mf, rx, fp_ok) ==
    IF rx = <<>> THEN 0
    ELSE RefreshNetworkCalls(t, mf, Head(rx))
         + DrainNetworkCalls(ApplyRefresh(t, mf, Head(rx), fp_ok), mf, Tail(rx), fp_ok)

\* The cooldown sweep at the head of drain_refresh_completions.
ExpireCooldowns(mf, time) ==
    [f \in {g \in DOMAIN mf : mf[g] > time - COOLDOWN_SECS} |-> mf[f]]

DrainResult(d, mf) ==
    [inodes |-> d.inodes, metadata_cache |-> d.metadata_cache, mutated_folders |-> mf]

DrainWith(t, mf, fp_ok) ==
    DrainResult(DrainRefreshes(t, mf, metadata_cache, refresh_rx, now, fp_ok), mf)

drain_refresh_completions(t, fp_ok) ==
    DrainWith(t, ExpireCooldowns(mutated_folders, now), fp_ok)

\* A drain that leaves the address of a failed prefetch in the set.
RECURSIVE DrainContentsKeepFailed(_, _, _, _)
DrainContentsKeepFailed(pf, cc, rx, time) ==
    IF rx = <<>> THEN [prefetching |-> pf, content_cache |-> cc]
    ELSE DrainContentsKeepFailed(
             IF Head(rx).ok THEN pf \ {Head(rx).cid} ELSE pf,
             IF Head(rx).ok THEN ContentCacheSet(cc, Head(rx).cid, Head(rx).data, time) ELSE cc,
             Tail(rx), time)

\* drain_content_prefetches
RECURSIVE DrainContents(_, _, _, _)
DrainContents(pf, cc, rx, time) ==
    IF rx = <<>> THEN [prefetching |-> pf, content_cache |-> cc]
    ELSE LET content == Head(rx)
         IN DrainContents(pf \ {content.cid},
                          IF content.ok THEN ContentCacheSet(cc, content.cid, content.data, time)
                          ELSE cc,
                          Tail(rx), time)

drain_content_prefetches == DrainContents(prefetching, content_cache, content_rx, now)

\* --------------------------------------------------------- publish pipeline
\* build_folder_metadata: the manifest of a folder from the inode table.
RECURSIVE BuildChildren(_, _)
BuildChildren(t, child_inos) ==
    IF child_inos = <<>> THEN [ok |-> TRUE, children |-> <<>>]
    ELSE LET c == Head(child_inos)
             rest == BuildChildren(t, Tail(child_inos))
         IN IF ~Has(t, c) \/ ~rest.ok THEN [ok |-> FALSE, children |-> <<>>]
            ELSE LET child == Get(t, c)
                     e == IF child.kind = "Folder"
                          THEN <<FolderEntry(child.name, child.ipns_name, TRUE)>>
                          ELSE IF child.kind = "File"
                               THEN <<FileEntry(child.name, child.cid, child.key, child.size)>>
                               ELSE <<>>
                 IN [ok |-> TRUE, children |-> e \o rest.children]

build_folder_metadata(t, folder_ino) ==
    IF ~Has(t, folder_ino) \/ ~IsDir(t, folder_ino) \/ ~Get(t, folder_ino).has_ipns_key
    THEN [ok |-> FALSE, metadata |-> FolderMetadata("v1", <<>>), ipns_name |-> 0]
    ELSE LET b == BuildChildren(t, ChildrenOf(t, folder_ino))
         IN [ok |-> b.ok, metadata |-> FolderMetadata("v1", b.children),
             ipns_name |-> Get(t, folder_ino).ipns_name]

\* A background publish thread.  kind "meta": spawn_metadata_publish; kind
\* "mkdir": the thread spawned by mkdir, which first publishes the record of
\* the new folder (child_name) and then the parent manifest.
PublishThread(kind, pc, ipns_name, metadata, child_name) ==
    [kind |-> kind, pc |-> pc, ipns_name |-> ipns_name, metadata |-> metadata,
     child_name |-> child_name, resp |-> [ok |-> FALSE, digits |-> FALSE, value |-> 0],
     cached |-> -1, seq |-> -1]

\* spawn_metadata_publish
spawn_metadata_publish(ths, ipns_name, metadata) ==
    Append(ths, PublishThread("meta", "lock", ipns_name, metadata, 0))

\* update_folder_metadata: build the manifest, stamp the cooldown, spawn the
\* publish thread.  A build error returns before the stamp.
update_folder_metadata(t, mf, ths, folder_ino, time) ==
    LET b == build_folder_metadata(t, folder_ino)
    IN IF ~b.ok THEN [mutated_folders |-> mf, threads |-> ths]
       ELSE [mutated_folders |-> MapPut(mf, folder_ino, time),
             threads |-> spawn_metadata_publish(ths, b.ipns_name, b.metadata)]

\* ------------------------------------------------------------------- mount
\* The record name derived from the key pair generated for folder `ino`.
derive_ipns_name(ino) == ino

\* Manifests the root record may carry at mount time.
MountManifests ==
    {FolderMetadata("v1", <<>>),
     FolderMetadata("v1", <<FileEntry("a", RemoteCid, RemoteCid, 1)>>),
     FolderMetadata("v1", <<FolderEntry("b", RemoteFolderName, TRUE)>>)}

\* mount_filesystem: the root is populated from its manifest, then every
\* subfolder directly under the root is pre-populated (sub_ok: its fetch and
\* decrypt succeed; its manifest is empty).
RECURSIVE PrePopulate(_, _, _)
PrePopulate(st, subs, sub_ok) ==
    IF subs = {} \/ ~sub_ok THEN st
    ELSE LET i == CHOOSE x \in subs : \A y \in subs : x <= y
         IN PrePopulate(
                [t |-> populate_folder_any(st.t, i, FolderMetadata("v1", <<>>)).t,
                 mc |-> MetadataCacheSet(st.mc, Get(st.t, i).ipns_name, RemoteCid, 0)],
                subs \ {i}, sub_ok)

mount_filesystem(root_metadata, sub_ok) ==
    LET mc == MetadataCacheSet(EmptyMap, RootName, RemoteCid, 0)
        t == populate_folder_any(NewTable, ROOT_INO, root_metadata).t
        subs == {i \in DOMAIN t.inodes : t.inodes[i].parent_ino = ROOT_INO
                                         /\ t.inodes[i].kind = "Folder"}
    IN PrePopulate([t |-> t, mc |-> mc], subs, sub_ok)

\* Records of the name service: `local` marks the records of this process.
Record(seq, metadata, local) == [seq |-> seq, metadata |-> metadata, local |-> local]

\* The records other devices published for the root before the mount.
RECURSIVE RemoteRecords(_, _)
RemoteRecords(r, metadata) ==
    IF r < 0 THEN <<>>
    ELSE Append(RemoteRecords(r - 1, metadata), Record(r, metadata, FALSE))

\* The directories whose manifest mount_filesystem could not load: the root
\* when its manifest was not cached, a subfolder of the root when it was
\* not populated.
BootFailed(m) ==
    (IF RootName \in DOMAIN m.mc THEN {} ELSE {ROOT_INO})
    \cup {i \in DOMAIN m.t.inodes : /\ m.t.inodes[i].kind = "Folder"
                                    /\ m.t.inodes[i].parent_ino = ROOT_INO
                                    /\ ~m.t.inodes[i].children_loaded}

\* mount_filesystem when the resolve, fetch or decrypt of the root manifest
\* may fail: the table then holds the root alone and nothing is cached.
Boot(root_ok, root_metadata, sub_ok) ==
    IF root_ok THEN mount_filesystem(root_metadata, sub_ok)
    ELSE [t |-> NewTable, mc |-> EmptyMap]

\* The state after mount_filesystem returned m, with the records the name
\* service holds at that time.
Mounted(m, root_metadata, sub_ok, r) ==
    /\ (sub_ok \/ \E i \in DOMAIN m.t.inodes : m.t.inodes[i].kind = "Folder")
    /\ inodes = m.t
    /\ metadata_cache = m.mc
    /\ content_cache = NewContentCache
    /\ open_files = EmptyMap
    /\ next_fh = 1
    /\ refresh_rx = <<>>
    /\ mutated_folders = EmptyMap
    /\ prefetching = {}
    /\ content_rx = <<>>
    /\ pending_content = EmptyMap
    /\ upload_rx = <<>>
    /\ publish_queue = {}
    /\ seq_cache = EmptyMap
    /\ publish_locks = EmptyMap
    /\ threads = <<>>
    /\ uploads = <<>>
    /\ refresh_tasks = <<>>
    /\ prefetch_tasks = {}
    /\ ns = (RootName :> RemoteRecords(r, root_metadata))
            @@ [n \in {RemoteFolderName} \cup 2..MaxIno |->
                   IF n = RemoteFolderName
                      /\ \E i \in DOMAIN m.t.inodes : m.t.inodes[i].kind = "Folder"
                   THEN <<Record(0, FolderMetadata("v1", <<>>), FALSE)>>
                   ELSE <<>>]
    /\ now = 0
    /\ netfail = FALSE
    /\ hist = [local_new |-> {}, last_mut |-> EmptyMap, content |-> EmptyMap, early |-> {},
               boot_failed |-> BootFailed(m), cache_log |-> <<>>,
               meta_stored |-> m.mc, handles |-> EmptyMap,
               sync |-> [enqueued |-> 0, last |-> "", handled |-> <<>>, failed |-> {},
                         attempts |-> EmptyMap, calls |-> 0],
               meta_reply |-> [name |-> NoCid, time |-> 0, found |-> FALSE,
                               cid |-> NoCid, at |-> 0]]

\* No crypto call is in progress.
NoCall == [fn |-> "none", done |-> TRUE]

\* The sync daemon starts with the default, empty write queue.
SyncIdle ==
    /\ write_queue = NewWriteQueue(DEFAULT_MAX_RETRIES)
    /\ call = NoCall

Init ==
    \E root_metadata \in MountManifests, sub_ok \in BOOLEAN, r \in 0..MaxRemoteSeq :
        /\ Mounted(mount_filesystem(root_metadata, sub_ok), root_metadata, sub_ok, r)
        /\ SyncIdle

\* The mount, with every failure of the bootstrap loads.
InitBoot ==
    \E root_ok \in BOOLEAN, root_metadata \in MountManifests, sub_ok \in BOOLEAN :
        /\ root_ok \/ root_metadata = FolderMetadata("v1", <<>>)
        /\ Mounted(Boot(root_ok, root_metadata, sub_ok), root_metadata, sub_ok, 0)
        /\ SyncIdle

\* ------------------------------------------------------- history variables
\* local_new: children added by a local create or mkdir that no fetched
\* manifest has listed yet.  last_mut: folder -> time of its last local
\* mutation.  content: file -> bytes written through a released handle.
\* early: the mkdir threads spawned while the mkdir thread of their parent
\* folder was still running.
Terminated(th) == th.pc \in {"done", "failed"}

Early(ths, b) ==
    IF b.ok /\ \E i \in DOMAIN ths : /\ ths[i].kind = "mkdir"
                                     /\ ths[i].child_name = b.ipns_name
                                     /\ ~Terminated(ths[i])
    THEN {Len(ths) + 1} ELSE {}

Listed(t, rx, i) ==
    Has(t, i) /\ \E k \in DOMAIN rx : /\ rx[k].ino = Get(t, i).parent_ino
                                      /\ Get(t, i).name \in ManifestNames(rx[k].metadata)

\* hist.handles keeps, for every handle opened with a temp file, the bytes
\* the file was seeded with and, per position, the byte written last
\* through the handle.
HistOpened(h, fh, seed) ==
    [h EXCEPT !.handles = MapPut(@, fh, [seed |-> seed, written |-> EmptyMap])]

HistClosed(h, fh) == [h EXCEPT !.handles = MapDel(@, fh)]

HistWritten(h, fh, offset, data) ==
    IF fh \notin DOMAIN h.handles THEN h
    ELSE [h EXCEPT !.handles[fh].written =
             [p \in DOMAIN @ \cup (offset + 1..offset + Len(data)) |->
                 IF p > offset /\ p <= offset + Len(data) THEN data[p - offset] ELSE @[p]]]

HistAfterRefresh(h, t, t2, rx) ==
    [h EXCEPT !.local_new = {i \in @ : ~Listed(t, rx, i)},
              !.content = [i \in {j \in DOMAIN @ : Has(t2, j) /\ Has(t, j)
                                                   /\ Get(t2, j) = Get(t, j)} |-> @[i]]]

HistMutated(h, folders, time) ==
    [h EXCEPT !.last_mut = [f \in DOMAIN @ \cup folders |->
                               IF f \in folders THEN time ELSE @[f]]]

\* ------------------------------------------------------ kernel callbacks
\* The kernel issues create and mkdir for a name only after a lookup of that
\* name failed.
\* lookup, the reply computed on the drained table t: the id of the entry,
\* or 0 for ENOENT (a platform-noise name, a missing parent, a folder whose
\* children are not loaded, no index entry, or an index entry whose inode is
\* gone).
lookup_reply(t, parent, name) ==
    IF is_platform_special(name) THEN 0
    ELSE IF ~Has(t, parent) THEN 0
    ELSE IF Get(t, parent).kind = "Folder" /\ ~Get(t, parent).children_loaded THEN 0
    ELSE IF Has(t, find_child(t, parent, name)) THEN find_child(t, parent, name)
    ELSE 0

LookupMisses(t, parent, name) == lookup_reply(t, parent, name) = 0

\* Link a new child under its parent: push onto the children list if any.
PushChild(t, parent, ino) ==
    IF Has(t, parent) /\ Get(t, parent).children_some
    THEN [t EXCEPT !.inodes[parent].children = Append(@, ino)]
    ELSE t

\* A background folder refresh task (resolve, fetch, decrypt, send).
RefreshTask(ino, ipns_name) == [ino |-> ino, ipns_name |-> ipns_name]

\* lookup
LookupDrained(du, dr, t, parent, name) ==
    LET needs_load == Has(t, parent) /\ Get(t, parent).kind = "Folder"
                      /\ ~Get(t, parent).children_loaded
    IN /\ t.next_ino <= MaxIno + 1
       /\ needs_load => Len(refresh_tasks) < MaxRefresh
       /\ inodes' = t
       /\ pending_content' = du.pending_content
       /\ content_cache' = du.content_cache
       /\ upload_rx' = <<>>
       /\ refresh_rx' = <<>>
       /\ metadata_cache' = dr.metadata_cache
       /\ mutated_folders' = dr.mutated_folders
       /\ refresh_tasks' = IF needs_load
                           THEN Append(refresh_tasks, RefreshTask(parent, Get(t, parent).ipns_name))
                           ELSE refresh_tasks
       /\ hist' = HistAfterRefresh(hist, du.inodes, t, refresh_rx)
       /\ UNCHANGED <<open_files, next_fh, prefetching, content_rx, publish_queue,
                      uploads, prefetch_tasks, now, netfail, threads, pubVars, syncVars>>

LookupAfterRefresh(du, dr, parent, name) == LookupDrained(du, dr, dr.inodes, parent, name)

LookupAfterUploads(du, parent, name) ==
    LookupAfterRefresh(du, drain_refresh_completions(du.inodes, TRUE), parent, name)

Lookup(parent, name) == LookupAfterUploads(drain_upload_completions, parent, name)

\* getattr
Getattr(ino) ==
    LET du == drain_upload_completions
    IN /\ inodes' = du.inodes
       /\ pending_content' = du.pending_content
       /\ content_cache' = du.content_cache
       /\ upload_rx' = <<>>
       /\ UNCHANGED <<metadata_cache, open_files, next_fh, refresh_rx, mutated_folders,
                      prefetching, content_rx, publish_queue, uploads, refresh_tasks,
                      prefetch_tasks, now, netfail, hist, threads, pubVars, syncVars>>

\* readdir, the proactive prefetch of the listed files: the CIDs to fetch.
PrefetchCids(t, cc, pf, children) ==
    {Get(t, children[k]).cid : k \in {j \in DOMAIN children :
        /\ Has(t, children[j]) /\ Get(t, children[j]).kind = "File"
        /\ Get(t, children[j]).cid /= NoCid
        /\ ~ContentCacheHit(cc, Get(t, children[j]).cid)
        /\ Get(t, children[j]).cid \notin pf}}

\* ContentCache::get on each listed file refreshes the access time of a hit.
RECURSIVE TouchChildren(_, _, _, _)
TouchChildren(t, cc, children, time) ==
    IF children = <<>> THEN cc
    ELSE LET c == Head(children)
             cc1 == IF Has(t, c) /\ Get(t, c).kind = "File" /\ Get(t, c).cid /= NoCid
                    THEN ContentCacheTouch(cc, Get(t, c).cid, time) ELSE cc
         IN TouchChildren(t, cc1, Tail(children), time)

\* The names readdir lists after "." and "..": those of the children that
\* are present and not platform noise.
ListedNames(t, children) ==
    LET Present(c) == Has(t, c) /\ ~is_platform_special(Get(t, c).name)
        cs == SelectSeq(children, Present)
    IN [k \in DOMAIN cs |-> Get(t, cs[k]).name]

\* readdir at offset 0
ReaddirDrained(dr, t, dc, ino) ==
    LET stale == Has(t, ino) /\ IsDir(t, ino)
                 /\ ~MetadataCacheFresh(dr.metadata_cache, Get(t, ino).ipns_name, now)
        children == ChildrenOf(t, ino)
        cids == PrefetchCids(t, dc.content_cache, dc.prefetching, children)
    IN /\ t.next_ino <= MaxIno + 1
       /\ stale => Len(refresh_tasks) < MaxRefresh
       /\ inodes' = t
       /\ refresh_rx' = <<>>
       /\ metadata_cache' = dr.metadata_cache
       /\ mutated_folders' = dr.mutated_folders
       /\ hist' = HistAfterRefresh(hist, inodes, t, refresh_rx)
       /\ refresh_tasks' = IF stale
                           THEN Append(refresh_tasks, RefreshTask(ino, Get(t, ino).ipns_name))
                           ELSE refresh_tasks
       /\ IF Has(t, ino)
          THEN /\ content_rx' = <<>>
               /\ content_cache' = TouchChildren(t, dc.content_cache, children, now)
               /\ prefetching' = dc.prefetching \cup cids
               /\ prefetch_tasks' = prefetch_tasks \cup cids
          ELSE /\ UNCHANGED <<content_rx, content_cache, prefetching, prefetch_tasks>>
       /\ UNCHANGED <<open_files, next_fh, pending_content, upload_rx, publish_queue,
                      uploads, now, netfail, threads, pubVars, syncVars>>

ReaddirAfterRefresh(dr, ino) == ReaddirDrained(dr, dr.inodes, drain_content_prefetches, ino)

Readdir(ino) == ReaddirAfterRefresh(drain_refresh_completions(inodes, TRUE), ino)

\* create: a new file inode with an empty CID and a writable handle.
\* temp_ok: the temp file of the handle can be created; if not, the inode
\* just inserted is removed again.
CreateTemp(parent, name, temp_ok) ==
    /\ inodes.next_ino <= MaxIno
    /\ next_fh <= MaxFh
    /\ IF is_platform_special(name) \/ ~IsDir(inodes, parent)
       THEN /\ UNCHANGED <<inodes, open_files, next_fh, mutated_folders, hist>>
       ELSE LET ino == inodes.next_ino
                t1 == [inodes EXCEPT !.next_ino = @ + 1]
                t2 == PushChild(Insert(t1, InodeData(ino, parent, name, "File")), parent, ino)
            IN IF ~temp_ok
               THEN /\ inodes' = Remove(t2, ino)
                    /\ next_fh' = next_fh + 1
                    /\ UNCHANGED <<open_files, mutated_folders, hist>>
               ELSE
               /\ inodes' = t2
               /\ open_files' = MapPut(open_files, next_fh, new_write(ino, <<>>))
               /\ next_fh' = next_fh + 1
               /\ mutated_folders' = MapPut(mutated_folders, parent, now)
               /\ hist' = HistOpened(HistMutated([hist EXCEPT !.local_new = @ \cup {ino}],
                                                  {parent}, now), next_fh, <<>>)
    /\ UNCHANGED <<metadata_cache, content_cache, refresh_rx, prefetching, content_rx,
                   pending_content, upload_rx, publish_queue, uploads, refresh_tasks,
                   prefetch_tasks, now, netfail, threads, pubVars, syncVars>>

\* create with a temp directory that can be written.
CreateInode(parent, name) == CreateTemp(parent, name, TRUE)

\* create as the kernel calls it for a path that its lookup did not find.
Create(parent, name) == LookupMisses(inodes, parent, name) /\ CreateInode(parent, name)

\* mkdir, the table once the new folder is inserted and pushed on the
\* parent's children list.
MkdirTable(t, parent, name) ==
    LET ino == t.next_ino
        t1 == [t EXCEPT !.next_ino = @ + 1]
        node == [InodeData(ino, parent, name, "Folder")
                   EXCEPT !.ipns_name = derive_ipns_name(ino), !.has_ipns_key = TRUE,
                          !.children_loaded = TRUE]
    IN PushChild(Insert(t1, node), parent, ino)

\* mkdir, the steps that follow the insertion: the record key is wrapped for
\* the TEE (tee_ok: the TEE public key of the mount is a valid key, or there
\* is none), then the parent manifest is built.
MkdirBuild(t, parent, name, tee_ok) ==
    LET b == build_folder_metadata(MkdirTable(t, parent, name), parent)
    IN IF tee_ok THEN b ELSE [b EXCEPT !.ok = FALSE]

\* mkdir, the reply: EIO when a step that follows the insertion fails.
mkdir_reply(t, parent, name, tee_ok) ==
    IF is_platform_special(name) THEN "EACCES"
    ELSE IF ~IsDir(t, parent) THEN "ENOENT"
    ELSE IF ~MkdirBuild(t, parent, name, tee_ok).ok THEN "EIO"
    ELSE "ok"

\* mkdir: a new folder inode; the parent manifest is built now and both
\* publishes are left to a background thread.
MkdirTee(parent, name, tee_ok) ==
    /\ inodes.next_ino <= MaxIno
    /\ Len(threads) < MaxThreads
    /\ IF is_platform_special(name) \/ ~IsDir(inodes, parent)
       THEN /\ UNCHANGED <<inodes, threads, hist>>
       ELSE LET ino == inodes.next_ino
                ipns_name == derive_ipns_name(ino)
                t2 == MkdirTable(inodes, parent, name)
                b == MkdirBuild(inodes, parent, name, tee_ok)
            IN /\ inodes' = t2
               /\ hist' = HistMutated([hist EXCEPT !.local_new = @ \cup {ino},
                                                    !.early = @ \cup Early(threads, b)],
                                       {parent}, now)
               /\ IF b.ok
                  THEN /\ threads' = Append(threads,
                              PublishThread("mkdir", "c_upload", b.ipns_name, b.metadata,
                                            ipns_name))
                  ELSE /\ threads' = threads
    /\ UNCHANGED <<metadata_cache, content_cache, open_files, next_fh, refresh_rx,
                   mutated_folders, prefetching, content_rx, pending_content, upload_rx,
                   publish_queue, uploads, refresh_tasks, prefetch_tasks, now, netfail,
                   pubVars, syncVars>>

\* mkdir on a mount whose TEE public key is valid.
MkdirInode(parent, name) == MkdirTee(parent, name, TRUE)

\* mkdir as the kernel calls it for a path that its lookup did not find.
Mkdir(parent, name) == LookupMisses(inodes, parent, name) /\ MkdirInode(parent, name)

\* unlink
Unlink(parent, name) ==
    LET child_ino == find_child(inodes, parent, name)
    IN /\ Len(threads) < MaxThreads
       /\ IF child_ino = 0 \/ ~Has(inodes, child_ino)
          THEN /\ UNCHANGED <<inodes, mutated_folders, threads, hist>>
          ELSE IF Get(inodes, child_ino).kind /= "File"
          THEN /\ UNCHANGED <<inodes, mutated_folders, threads, hist>>
          ELSE LET t1 == Remove(inodes, child_ino)
                   u == update_folder_metadata(t1, mutated_folders, threads, parent, now)
               IN /\ inodes' = t1
                  /\ mutated_folders' = u.mutated_folders
                  /\ threads' = u.threads
                  /\ hist' = HistMutated([hist EXCEPT !.local_new = @ \ {child_ino},
                                                      !.content = MapDel(@, child_ino)],
                                         {parent}, now)
       /\ UNCHANGED <<metadata_cache, content_cache, open_files, next_fh, refresh_rx,
                      prefetching, content_rx, pending_content, upload_rx, publish_queue,
                      uploads, refresh_tasks, prefetch_tasks, now, netfail, pubVars, syncVars>>

\* rmdir
Rmdir(parent, name) ==
    LET child_ino == find_child(inodes, parent, name)
    IN /\ Len(threads) < MaxThreads
       /\ IF child_ino = 0 \/ ~Has(inodes, child_ino)
          THEN /\ UNCHANGED <<inodes, mutated_folders, threads, hist>>
          ELSE IF Get(inodes, child_ino).kind /= "Folder"
          THEN /\ UNCHANGED <<inodes, mutated_folders, threads, hist>>
          ELSE IF ChildrenOf(inodes, child_ino) /= <<>>
          THEN /\ UNCHANGED <<inodes, mutated_folders, threads, hist>>
          ELSE LET t1 == Remove(inodes, child_ino)
                   u == update_folder_metadata(t1, mutated_folders, threads, parent, now)
               IN /\ inodes' = t1
                  /\ mutated_folders' = u.mutated_folders
                  /\ threads' = u.threads
                  /\ hist' = HistMutated([hist EXCEPT !.local_new = @ \ {child_ino}],
                                         {parent}, now)
       /\ UNCHANGED <<metadata_cache, content_cache, open_files, next_fh, refresh_rx,
                      prefetching, content_rx, pending_content, upload_rx, publish_queue,
                      uploads, refresh_tasks, prefetch_tasks, now, netfail, pubVars, syncVars>>

\* ino is `anc` or lies below it, following parent ids for at most `fuel`
\* steps.
RECURSIVE Below(_, _, _, _)
Below(t, anc, ino, fuel) ==
    IF ino = anc THEN TRUE
    ELSE IF fuel = 0 \/ ~Has(t, ino) \/ Get(t, ino).parent_ino = ino THEN FALSE
    ELSE Below(t, anc, Get(t, ino).parent_ino, fuel - 1)

\* rename.  The kernel resolves both paths first: the new parent is a known
\* directory, the two paths differ and do not resolve to the same inode
\* (then the kernel does nothing), and a directory is never moved into
\* itself or below itself.
Rename(parent, name, newparent, newname) ==
    LET source_ino == find_child(inodes, parent, name)
        dest_ino == find_child(inodes, newparent, newname)
        t1 == IF dest_ino /= 0 THEN Remove(inodes, dest_ino) ELSE inodes
        t2 == [t1 EXCEPT !.name_to_ino = MapDel(@, <<parent, NFC(name)>>)]
        t3 == IF Has(t2, source_ino)
              THEN [t2 EXCEPT !.inodes[source_ino].name = newname,
                              !.inodes[source_ino].parent_ino = newparent]
              ELSE t2
        t4 == [t3 EXCEPT !.name_to_ino = MapPut(@, <<newparent, NFC(newname)>>, source_ino)]
        t5 == IF parent = newparent THEN t4
              ELSE LET o == IF Has(t4, parent) /\ Get(t4, parent).children_some
                            THEN [t4 EXCEPT !.inodes[parent].children = Without(@, source_ino)]
                            ELSE t4
                   IN PushChild(o, newparent, source_ino)
        u1 == update_folder_metadata(t5, mutated_folders, threads, parent, now)
        u2 == IF parent = newparent THEN u1
              ELSE update_folder_metadata(t5, u1.mutated_folders, u1.threads, newparent, now)
    IN /\ Len(threads) + (IF parent = newparent THEN 1 ELSE 2) <= MaxThreads
       /\ IsDir(inodes, newparent)
       /\ <<parent, name>> /= <<newparent, newname>>
       /\ source_ino /= 0 => source_ino /= dest_ino
       /\ source_ino /= 0 => ~Below(inodes, source_ino, newparent, MaxIno)
       /\ IF source_ino = 0
          THEN /\ UNCHANGED <<inodes, mutated_folders, threads, hist>>
          ELSE IF dest_ino /= 0 /\ Has(inodes, dest_ino)
                  /\ Get(inodes, dest_ino).kind = "Folder"
                  /\ ChildrenOf(inodes, dest_ino) /= <<>>
          THEN /\ UNCHANGED <<inodes, mutated_folders, threads, hist>>
          ELSE /\ inodes' = t5
               /\ mutated_folders' = u2.mutated_folders
               /\ threads' = u2.threads
               /\ hist' = HistMutated(
                     [hist EXCEPT !.local_new = (@ \ {dest_ino}) \cup {source_ino},
                                  !.content = MapDel(@, dest_ino)],
                     {parent, newparent}, now)
       /\ UNCHANGED <<metadata_cache, content_cache, open_files, next_fh, refresh_rx,
                      prefetching, content_rx, pending_content, upload_rx, publish_queue,
                      uploads, refresh_tasks, prefetch_tasks, now, netfail, pubVars, syncVars>>

\* The plaintext stored under a content address: the remote blob, or the
\* bytes handed to the upload with that number.
Blob(cid) == IF cid = RemoteCid THEN RemoteData ELSE uploads[cid].data

\* open.  write = TRUE is O_WRONLY / O_RDWR; fetch_ok is the outcome of the
\* blocking download of the current content when it is not cached.
Open(ino, write, fetch_ok) ==
    LET dc == drain_content_prefetches
        cid == Get(inodes, ino).cid
        hit == ContentCacheHit(dc.content_cache, cid)
        fh == next_fh
    IN /\ next_fh <= MaxFh
       /\ IF ~Has(inodes, ino)
          THEN /\ UNCHANGED <<open_files, next_fh, content_cache, prefetching, content_rx,
                              prefetch_tasks>>
          ELSE IF Get(inodes, ino).kind /= "File"
          THEN /\ UNCHANGED <<open_files, next_fh, content_cache, prefetching, content_rx,
                              prefetch_tasks>>
          ELSE IF write /\ cid = NoCid
          THEN /\ open_files' = MapPut(open_files, fh, new_write(ino, <<>>))
               /\ next_fh' = next_fh + 1
               /\ UNCHANGED <<content_cache, prefetching, content_rx, prefetch_tasks>>
          ELSE IF write
          THEN /\ content_rx' = <<>>
               /\ prefetching' = dc.prefetching
               /\ content_cache' = ContentCacheTouch(dc.content_cache, cid, now)
               /\ UNCHANGED prefetch_tasks
               /\ IF hit \/ fetch_ok
                  THEN /\ open_files' = MapPut(open_files, fh,
                              new_write(ino, IF hit THEN dc.content_cache.entries[cid].data
                                             ELSE Blob(cid)))
                       /\ next_fh' = next_fh + 1
                  ELSE /\ UNCHANGED <<open_files, next_fh>>
          ELSE LET start == cid /= NoCid /\ ~hit /\ cid \notin dc.prefetching
               IN /\ content_rx' = <<>>
                  /\ content_cache' = IF cid /= NoCid
                                      THEN ContentCacheTouch(dc.content_cache, cid, now)
                                      ELSE dc.content_cache
                  /\ prefetching' = IF start THEN dc.prefetching \cup {cid} ELSE dc.prefetching
                  /\ prefetch_tasks' = IF start THEN prefetch_tasks \cup {cid} ELSE prefetch_tasks
                  /\ open_files' = MapPut(open_files, fh, new_read(ino))
                  /\ next_fh' = next_fh + 1
       /\ hist' = IF next_fh' /= next_fh /\ open_files'[fh].temp
                  THEN HistOpened(hist, fh, open_files'[fh].buf)
                  ELSE hist
       /\ UNCHANGED <<inodes, metadata_cache, refresh_rx, mutated_folders, pending_content,
                      upload_rx, publish_queue, uploads, refresh_tasks, now, threads,
                      pubVars, syncVars>>
       /\ netfail' = (netfail \/ (Has(inodes, ino) /\ Get(inodes, ino).kind = "File"
                                  /\ write /\ cid /= NoCid /\ ~hit /\ ~fetch_ok))

\* write, on an open handle
Write(fh, offset, data) ==
    /\ fh \in DOMAIN open_files
    /\ LET handle == open_files[fh]
           ino == handle.ino
           new_end == offset + Len(data)
       IN IF ~handle.temp
          THEN /\ UNCHANGED <<open_files, inodes, hist>>
          ELSE /\ open_files' = [open_files EXCEPT ![fh] = write_at(handle, offset, data)]
               /\ inodes' = IF Has(inodes, ino) /\ new_end > Get(inodes, ino).attr_size
                            THEN [inodes EXCEPT !.inodes[ino].attr_size = new_end]
                            ELSE inodes
               /\ hist' = HistWritten([hist EXCEPT !.content = MapDel(@, ino)],
                                       fh, offset, data)
    /\ UNCHANGED <<metadata_cache, content_cache, next_fh, refresh_rx, mutated_folders,
                   prefetching, content_rx, pending_content, upload_rx, publish_queue,
                   uploads, refresh_tasks, prefetch_tasks, now, netfail, threads, pubVars, syncVars>>

\* read, the poll of the prefetch channel on a cache miss.  Times are in
\* milliseconds since poll_start.
POLL_INTERVAL_MS == 100
MAX_WAIT_MS == 3000

\* The timing of one poll: the notice of the download task reaches the channel
\* at `at`, it is a Success (ok) or a Failure, and each turn of the loop takes
\* `lag` beyond its sleep.
Timing(at, ok, lag) == [at |-> at, ok |-> ok, lag |-> lag]

\* A notice that reaches the channel after every poll.
NoNotice == 2 * MAX_WAIT_MS

\* A loop that tests the deadline before the cache.
RECURSIVE poll_loop_break_first(_, _, _)
poll_loop_break_first(timing, elapsed, polls) ==
    LET e == elapsed + POLL_INTERVAL_MS + timing.lag
        drained == timing.at <= e
    IN IF e > MAX_WAIT_MS
       THEN [reply |-> "EIO", elapsed |-> e, polls |-> polls + 1, drained |-> drained]
       ELSE IF drained /\ timing.ok
       THEN [reply |-> "data", elapsed |-> e, polls |-> polls + 1, drained |-> TRUE]
       ELSE poll_loop_break_first(timing, e, polls + 1)

\* One turn of the loop: sleep, drain the channel, serve on a cache hit,
\* break once more than max_wait has elapsed.  drained: the task's notice
\* was taken from the channel.
RECURSIVE poll_loop(_, _, _)
poll_loop(timing, elapsed, polls) ==
    LET e == elapsed + POLL_INTERVAL_MS + timing.lag
        drained == timing.at <= e
    IN IF drained /\ timing.ok
       THEN [reply |-> "data", elapsed |-> e, polls |-> polls + 1, drained |-> TRUE]
       ELSE IF e > MAX_WAIT_MS
       THEN [reply |-> "EIO", elapsed |-> e, polls |-> polls + 1, drained |-> drained]
       ELSE poll_loop(timing, e, polls + 1)

read_poll(timing) == poll_loop(timing, 0, 0)

\* The timings of the file callbacks: the result arrives at the first poll,
\* or after the last one.
Arrives == Timing(POLL_INTERVAL_MS, TRUE, 0)
Late == Timing(NoNotice, TRUE, 0)

\* read, on an open handle.  timing: on a cache miss, the timing of the poll.
Read(fh, offset, size, timing) ==
    /\ fh \in DOMAIN open_files
    /\ LET handle == open_files[fh]
           ino == handle.ino
           dc == drain_content_prefetches
           cid == Get(inodes, ino).cid
           hit == ContentCacheHit(dc.content_cache, cid)
       IN /\ content_rx' = <<>>
          /\ IF handle.temp
             THEN /\ content_cache' = dc.content_cache
                  /\ prefetching' = dc.prefetching
                  /\ UNCHANGED <<open_files, prefetch_tasks, netfail>>
             ELSE IF ~Has(inodes, ino)
             THEN /\ content_cache' = dc.content_cache
                  /\ prefetching' = dc.prefetching
                  /\ UNCHANGED <<open_files, prefetch_tasks, netfail>>
             ELSE IF Get(inodes, ino).kind /= "File"
             THEN /\ content_cache' = dc.content_cache
                  /\ prefetching' = dc.prefetching
                  /\ UNCHANGED <<open_files, prefetch_tasks, netfail>>
             ELSE IF cid = NoCid
             THEN /\ content_cache' = dc.content_cache
                  /\ prefetching' = dc.prefetching
                  /\ UNCHANGED <<open_files, prefetch_tasks, netfail>>
             ELSE IF handle.cached_some
             THEN /\ content_cache' = dc.content_cache
                  /\ prefetching' = dc.prefetching
                  /\ UNCHANGED <<open_files, prefetch_tasks, netfail>>
             ELSE IF hit
             THEN /\ content_cache' = ContentCacheTouch(dc.content_cache, cid, now)
                  /\ prefetching' = dc.prefetching
                  /\ open_files' = [open_files EXCEPT
                                       ![fh].cached_some = offset < Len(dc.content_cache.entries[cid].data),
                                       ![fh].cached_content =
                                           IF offset < Len(dc.content_cache.entries[cid].data)
                                           THEN dc.content_cache.entries[cid].data ELSE <<>>]
                  /\ UNCHANGED <<prefetch_tasks, netfail>>
             ELSE IF read_poll(timing).reply = "data"
             THEN /\ content_cache' = ContentCacheSet(dc.content_cache, cid, Blob(cid), now)
                  /\ prefetching' = dc.prefetching \ {cid}
                  /\ prefetch_tasks' = prefetch_tasks \ {cid}
                  /\ UNCHANGED <<open_files, netfail>>
             ELSE IF read_poll(timing).drained
             THEN /\ content_cache' = dc.content_cache
                  /\ prefetching' = dc.prefetching \ {cid}
                  /\ prefetch_tasks' = prefetch_tasks \ {cid}
                  /\ netfail' = TRUE
                  /\ UNCHANGED open_files
             ELSE /\ content_cache' = dc.content_cache
                  /\ prefetching' = dc.prefetching \cup {cid}
                  /\ prefetch_tasks' = prefetch_tasks \cup {cid}
                  /\ netfail' = TRUE
                  /\ UNCHANGED open_files
    /\ UNCHANGED <<inodes, metadata_cache, next_fh, refresh_rx, mutated_folders,
                   pending_content, upload_rx, publish_queue, uploads, refresh_tasks, now,
                   hist, threads, pubVars, syncVars>>

\* read, the reply: the bytes returned, or the errno; err = "EAGAIN" stands
\* for the paths that wait for a download.
ReadReply(fh, offset, size) ==
    LET handle == open_files[fh]
        ino == handle.ino
        cc == drain_content_prefetches.content_cache
    IN IF handle.temp THEN [err |-> "", data |-> read_at(handle, offset, size)]
       ELSE IF ~Has(inodes, ino) THEN [err |-> "ENOENT", data |-> <<>>]
       ELSE IF Get(inodes, ino).kind /= "File" THEN [err |-> "EISDIR", data |-> <<>>]
       ELSE IF Get(inodes, ino).cid = NoCid
       THEN [err |-> "",
             data |-> IF ino \in DOMAIN pending_content
                      THEN Slice(pending_content[ino], offset, size) ELSE <<>>]
       ELSE IF handle.cached_some
       THEN [err |-> "", data |-> Slice(handle.cached_content, offset, size)]
       ELSE IF ContentCacheHit(cc, Get(inodes, ino).cid)
       THEN [err |-> "", data |-> Slice(cc.entries[Get(inodes, ino).cid].data, offset, size)]
       ELSE [err |-> "EAGAIN", data |-> <<>>]

\* read, the reply of the path that polls: the bytes of the downloaded
\* content, or EIO after the loop breaks.
ReadPollReply(fh, offset, size, timing) ==
    IF read_poll(timing).reply = "data"
    THEN [err |-> "", data |-> Slice(Blob(Get(inodes, open_files[fh].ino).cid), offset, size)]
    ELSE [err |-> "EIO", data |-> <<>>]

\* getattr, the reply: the size of the attributes after the drain.
GetattrReply(ino) == Get(drain_upload_completions.inodes, ino).attr_size

\* A file upload thread spawned by release.
Upload(ino, data) == [ino |-> ino, data |-> data, status |-> "inflight"]

\* queue_publish: the debounced publish of a folder manifest.  The folder is
\* stamped as locally mutated and queued.
queue_publish(queue, mf, folder_ino, time) ==
    [publish_queue |-> queue \cup {folder_ino},
     mutated_folders |-> MapPut(mf, folder_ino, time)]

\* release
Release(fh) ==
    /\ fh \in DOMAIN open_files
    /\ LET du == drain_upload_completions
           t == du.inodes
           handle == open_files[fh]
           ino == handle.ino
           is_new_file == handle.temp /\ Has(t, ino) /\ Get(t, ino).kind = "File"
                          /\ Get(t, ino).cid = NoCid
           needs_upload == handle.temp /\ (handle.dirty \/ is_new_file)
           plaintext == handle.buf
           key == Len(uploads) + 1
           parent_ino == IF Has(t, ino) THEN Get(t, ino).parent_ino ELSE ROOT_INO
           q == queue_publish(publish_queue, mutated_folders, parent_ino, now)
       IN /\ needs_upload => Len(uploads) < MaxUploads
          /\ open_files' = MapDel(open_files, fh)
          /\ content_cache' = du.content_cache
          /\ upload_rx' = <<>>
          /\ IF needs_upload
             THEN /\ inodes' = IF Has(t, ino)
                               THEN [t EXCEPT !.inodes[ino].kind = "File",
                                              !.inodes[ino].cid = NoCid,
                                              !.inodes[ino].key = key,
                                              !.inodes[ino].size = Len(plaintext),
                                              !.inodes[ino].attr_size = Len(plaintext),
                                              !.inodes[ino].file_meta_ipns_name = 0,
                                              !.inodes[ino].file_meta_resolved = TRUE]
                               ELSE t
                  /\ pending_content' = MapPut(du.pending_content, ino, plaintext)
                  /\ publish_queue' = q.publish_queue
                  /\ mutated_folders' = q.mutated_folders
                  /\ uploads' = Append(uploads, Upload(ino, plaintext))
                  /\ hist' = HistClosed(HistMutated(
                        IF handle.dirty THEN [hist EXCEPT !.content = MapPut(@, ino, plaintext)]
                        ELSE hist, {parent_ino}, now), fh)
             ELSE /\ inodes' = t
                  /\ pending_content' = du.pending_content
                  /\ hist' = HistClosed(hist, fh)
                  /\ UNCHANGED <<publish_queue, mutated_folders, uploads>>
    /\ UNCHANGED <<metadata_cache, next_fh, refresh_rx, prefetching, content_rx,
                   refresh_tasks, prefetch_tasks, now, netfail, threads, pubVars, syncVars>>

\* The debounce timer of the publish queue fires for a folder none of whose
\* children has an upload in flight: its manifest is built and published.
FlushPublishQueue(folder_ino) ==
    /\ folder_ino \in publish_queue
    /\ Len(threads) < MaxThreads
    /\ \A i \in DOMAIN pending_content :
           ~(Has(inodes, i) /\ Get(inodes, i).parent_ino = folder_ino)
    /\ LET u == update_folder_metadata(inodes, mutated_folders, threads, folder_ino, now)
       IN /\ mutated_folders' = u.mutated_folders
          /\ threads' = u.threads
    /\ publish_queue' = publish_queue \ {folder_ino}
    /\ UNCHANGED <<inodes, metadata_cache, content_cache, open_files, next_fh, refresh_rx,
                   prefetching, content_rx, pending_content, upload_rx, uploads,
                   refresh_tasks, prefetch_tasks, now, netfail, hist, pubVars, syncVars>>

\* --------------------------------------------------------- background tasks
\* A folder refresh task ends: it sends the manifest it fetched, or logs its
\* failure and sends nothing.
RefreshTaskDone(k, ok, metadata) ==
    /\ k \in DOMAIN refresh_tasks
    /\ refresh_tasks' = [j \in 1..(Len(refresh_tasks) - 1) |->
                            IF j < k THEN refresh_tasks[j] ELSE refresh_tasks[j + 1]]
    /\ refresh_rx' = IF ok
                     THEN Append(refresh_rx, [ino |-> refresh_tasks[k].ino,
                                              ipns_name |-> refresh_tasks[k].ipns_name,
                                              metadata |-> metadata, cid |-> RemoteCid])
                     ELSE refresh_rx
    /\ netfail' = (netfail \/ ~ok)
    /\ UNCHANGED <<inodes, metadata_cache, content_cache, open_files, next_fh,
                   mutated_folders, prefetching, content_rx, pending_content, upload_rx,
                   publish_queue, uploads, prefetch_tasks, now, hist, threads,
                   pubVars, syncVars>>

\* A file upload thread ends: it sends UploadComplete, or logs its failure.
UploadDone(k, ok) ==
    /\ k \in DOMAIN uploads
    /\ uploads[k].status = "inflight"
    /\ uploads' = [uploads EXCEPT ![k].status = IF ok THEN "done" ELSE "failed"]
    /\ upload_rx' = IF ok THEN Append(upload_rx, [ino |-> uploads[k].ino, new_cid |-> k])
                    ELSE upload_rx
    /\ netfail' = (netfail \/ ~ok)
    /\ UNCHANGED <<inodes, metadata_cache, content_cache, open_files, next_fh, refresh_rx,
                   mutated_folders, prefetching, content_rx, pending_content,
                   publish_queue, refresh_tasks, prefetch_tasks, now, hist, threads,
                   pubVars, syncVars>>

\* A content prefetch task ends: PendingContent with the plaintext, or the
\* failure notice.
PrefetchDone(cid, ok) ==
    /\ cid \in prefetch_tasks
    /\ prefetch_tasks' = prefetch_tasks \ {cid}
    /\ content_rx' = Append(content_rx, [cid |-> cid, ok |-> ok,
                                         data |-> IF ok THEN Blob(cid) ELSE <<>>])
    /\ netfail' = (netfail \/ ~ok)
    /\ UNCHANGED <<inodes, metadata_cache, content_cache, open_files, next_fh, refresh_rx,
                   mutated_folders, prefetching, pending_content, upload_rx, publish_queue,
                   uploads, refresh_tasks, now, hist, threads, pubVars, syncVars>>

\* Time passes.
Tick ==
    /\ now + TickSecs <= MaxTime
    /\ now' = now + TickSecs
    /\ UNCHANGED <<inodes, metadata_cache, content_cache, open_files, next_fh, refresh_rx,
                   mutated_folders, prefetching, content_rx, pending_content, upload_rx,
                   publish_queue, uploads, refresh_tasks, prefetch_tasks, netfail, hist,
                   threads, pubVars, syncVars>>

\* ------------------------------------------------------------ specification
Inos == 1..MaxIno
Fhs == 1..MaxFh
WriteData == {<<7>>, <<8, 7>>}
Offsets == {0, 1}
ReadSizes == {1, 4}

\* The namespace callbacks with the folder refresh tasks and the clock.
NextTree ==
    \/ \E p \in Inos, n \in Names : Lookup(p, n)
    \/ \E i \in Inos : Readdir(i)
    \/ \E p \in Inos, n \in Names : Create(p, n)
    \/ \E p \in Inos, n \in Names : Mkdir(p, n)
    \/ \E p \in Inos, n \in Names : Unlink(p, n)
    \/ \E p \in Inos, n \in Names : Rmdir(p, n)
    \/ \E p \in Inos, n \in Names, q \in Inos, m \in Names : Rename(p, n, q, m)
    \/ \E k \in 1..MaxRefresh, ok \in BOOLEAN, m \in Manifests : RefreshTaskDone(k, ok, m)
    \/ Tick

SpecTree == Init /\ [][NextTree]_vars

\* The tree callbacks with a temp directory that may refuse the file of a
\* new handle and a TEE public key that may be malformed.
NextLink ==
    \/ \E p \in Inos, n \in Names : Lookup(p, n)
    \/ \E i \in Inos : Readdir(i)
    \/ \E p \in Inos, n \in Names, temp_ok \in BOOLEAN :
           LookupMisses(inodes, p, n) /\ CreateTemp(p, n, temp_ok)
    \/ \E p \in Inos, n \in Names, tee_ok \in BOOLEAN :
           LookupMisses(inodes, p, n) /\ MkdirTee(p, n, tee_ok)
    \/ \E p \in Inos, n \in Names : Unlink(p, n)
    \/ \E k \in 1..MaxRefresh, ok \in BOOLEAN, m \in Manifests : RefreshTaskDone(k, ok, m)
    \/ Tick

SpecLink == Init /\ [][NextLink]_vars

\* The names of the inode-table specification: the two spellings of an
\* accented name and a platform-noise name.
TableNames == {Decomposed, Composed} \cup PlatformNames

\* The manifests a refresh of that specification can deliver: those of the
\* environment, and a v2 manifest that lists a FilePointer under the
\* composed spelling.
TableManifests ==
    Manifests \cup {FolderMetadata("v2", <<FilePointer(Composed, RemoteFileName)>>)}

\* The namespace callbacks called with any name, also one that is present,
\* with the folder refresh tasks and the clock.
NextTable ==
    \/ \E p \in Inos : Lookup(p, Composed)
    \/ \E i \in Inos : Readdir(i)
    \/ \E p \in Inos, n \in TableNames : CreateInode(p, n)
    \/ \E p \in Inos, n \in TableNames : MkdirInode(p, n)
    \/ \E p \in Inos, n \in TableNames : Unlink(p, n)
    \/ \E p \in Inos, n \in TableNames : Rmdir(p, n)
    \/ \E p \in Inos, n \in TableNames, q \in Inos, m \in TableNames : Rename(p, n, q, m)
    \/ \E k \in 1..MaxRefresh, ok \in BOOLEAN, m \in TableManifests : RefreshTaskDone(k, ok, m)
    \/ Tick

SpecTable == Init /\ [][NextTable]_vars

\* The callbacks that load and list directories after a mount whose
\* bootstrap loads may have failed, with a local create, the refresh tasks
\* and the clock.
NextBoot ==
    \/ \E p \in Inos, n \in Names : Lookup(p, n)
    \/ \E i \in Inos : Readdir(i)
    \/ \E p \in Inos, n \in Names : Create(p, n)
    \/ \E k \in 1..MaxRefresh, ok \in BOOLEAN, m \in Manifests : RefreshTaskDone(k, ok, m)
    \/ Tick

SpecBoot == InitBoot /\ [][NextBoot]_vars

\* ------------------------------------------------------ the content cache
\* The calls on the content cache of a mounted filesystem.  Every call reads
\* the monotonic clock after the previous call returned, so `now` advances
\* with each of them; data is vec![fill; size], kept as its fill and size.
MaxCacheOps == 4
Chunk == MAX_CACHE_SIZE \div 3 + 1
Oversized == MAX_CACHE_SIZE + 1
CacheCids == {"a", "b", "c"}
CacheSizes == {1, Chunk, Oversized}

CacheCall(op) ==
    /\ Len(hist.cache_log) < MaxCacheOps
    /\ now' = now + 1
    /\ hist' = [hist EXCEPT !.cache_log = Append(@, op)]
    /\ UNCHANGED <<inodes, metadata_cache, open_files, next_fh, refresh_rx,
                   mutated_folders, prefetching, content_rx, pending_content, upload_rx,
                   publish_queue, seq_cache, publish_locks, threads, uploads,
                   refresh_tasks, prefetch_tasks, ns, netfail, syncVars>>

CacheSet(cid, size) ==
    /\ content_cache' = ContentCacheStore(content_cache, cid, [fill |-> 0, len |-> size],
                                          size, now + 1)
    /\ CacheCall([op |-> "set", cid |-> cid, size |-> size])

CacheGet(cid) ==
    /\ content_cache' = ContentCacheTouch(content_cache, cid, now + 1)
    /\ CacheCall([op |-> "get", cid |-> cid, size |-> 0])

CacheClear ==
    /\ content_cache' = ContentCacheClear
    /\ CacheCall([op |-> "clear", cid |-> "", size |-> 0])

MountedEmpty ==
    Mounted(mount_filesystem(FolderMetadata("v1", <<>>), TRUE),
            FolderMetadata("v1", <<>>), TRUE, 0)

InitCache == MountedEmpty /\ SyncIdle

NextCache ==
    \/ \E cid \in CacheCids, size \in CacheSizes : CacheSet(cid, size)
    \/ \E cid \in CacheCids : CacheGet(cid)
    \/ CacheClear

SpecCache == InitCache /\ [][NextCache]_vars

\* ----------------------------------------------------- the metadata cache
\* The calls on the metadata cache of a mounted filesystem, with the clock
\* in seconds.  hist.meta_stored keeps, per name, what the last set stored
\* unless an invalidate or clear came after it; hist.meta_reply keeps the
\* last reply of get.
MaxMetaTime == 30
MetaNames == {RootName, RemoteFolderName}
MetaCids == {RemoteCid, RemoteCid + 1}
Elapses == {10, 19}

MetaUnchanged ==
    UNCHANGED <<inodes, content_cache, open_files, next_fh, refresh_rx,
                mutated_folders, prefetching, content_rx, pending_content, upload_rx,
                publish_queue, seq_cache, publish_locks, threads, uploads,
                refresh_tasks, prefetch_tasks, ns, netfail, syncVars>>

MetaSet(name, cid) ==
    /\ metadata_cache' = MetadataCacheSet(metadata_cache, name, cid, now)
    /\ hist' = [hist EXCEPT !.meta_stored = MapPut(@, name, [cid |-> cid, fetched_at |-> now])]
    /\ UNCHANGED now
    /\ MetaUnchanged

MetaGet(name) ==
    /\ hist' = [hist EXCEPT !.meta_reply =
                    [name |-> name, time |-> now] @@ MetadataCacheGet(metadata_cache, name, now)]
    /\ UNCHANGED <<metadata_cache, now>>
    /\ MetaUnchanged

MetaInvalidate(name) ==
    /\ metadata_cache' = MetadataCacheInvalidate(metadata_cache, name)
    /\ hist' = [hist EXCEPT !.meta_stored = MapDel(@, name)]
    /\ UNCHANGED now
    /\ MetaUnchanged

MetaClear ==
    /\ metadata_cache' = MetadataCacheClear
    /\ hist' = [hist EXCEPT !.meta_stored = EmptyMap]
    /\ UNCHANGED now
    /\ MetaUnchanged

Elapse(d) ==
    /\ now + d <= MaxMetaTime
    /\ now' = now + d
    /\ UNCHANGED <<metadata_cache, hist>>
    /\ MetaUnchanged

NextMeta ==
    \/ \E name \in MetaNames, cid \in MetaCids : MetaSet(name, cid)
    \/ \E name \in MetaNames : MetaGet(name)
    \/ \E name \in MetaNames : MetaInvalidate(name)
    \/ MetaClear
    \/ \E d \in Elapses : Elapse(d)

SpecMeta == InitCache /\ [][NextMeta]_vars

\* ---------------------------------------------------------- the write queue
\* The calls on the write queue of the sync daemon.  hist.sync keeps the
\* number of writes enqueued, the handler's call log and failures of the
\* last process call, the handler calls per write, and the number of
\* process calls on a non-empty queue since the last enqueue.
MaxWrites == 3
MaxRetries == 2

QueueUnchanged ==
    UNCHANGED <<inodes, metadata_cache, content_cache, open_files, next_fh, refresh_rx,
                mutated_folders, prefetching, content_rx, pending_content, upload_rx,
                publish_queue, seq_cache, publish_locks, threads, uploads,
                refresh_tasks, prefetch_tasks, ns, now, netfail, call>>

QueueIds(queue) == [i \in 1..Len(queue) |-> queue[i].id]

Enqueue ==
    /\ hist.sync.enqueued < MaxWrites
    /\ write_queue' = enqueue(write_queue, QueuedWrite(hist.sync.enqueued + 1))
    /\ hist' = [hist EXCEPT !.sync.enqueued = @ + 1, !.sync.last = "enqueue",
                            !.sync.calls = 0]
    /\ QueueUnchanged

Process(fails) ==
    /\ fails \subseteq Range(QueueIds(write_queue.queue))
    /\ LET r == process(write_queue, fails)
       IN /\ write_queue' = r.wq
          /\ hist' = [hist EXCEPT
                         !.sync.last = "process",
                         !.sync.handled = r.handled,
                         !.sync.failed = fails,
                         !.sync.calls = IF Len(write_queue.queue) = 0 THEN @ ELSE @ + 1,
                         !.sync.attempts =
                             [id \in DOMAIN @ \cup Range(r.handled) |->
                                 (IF id \in DOMAIN @ THEN @[id] ELSE 0)
                                 + Cardinality({i \in DOMAIN r.handled : r.handled[i] = id})]]
    /\ QueueUnchanged

InitQueue ==
    /\ MountedEmpty
    /\ call = NoCall
    /\ \E max_retries \in 0..MaxRetries : write_queue = NewWriteQueue(max_retries)

NextQueue ==
    \/ Enqueue
    \/ \E fails \in SUBSET (1..MaxWrites) : Process(fails)

SpecQueue == InitQueue /\ [][NextQueue]_vars

\* --------------------------------------------------------- the crypto calls
\* A call of decrypt_aes_ctr_range or of a manifest decoder: `call` holds
\* the arguments, and the result once the function has returned.
MaxCtLen == 33
Ciphertext(len) == [i \in 1..len |-> (i * 5 + 2) % ByteMod]
Ivs == {[nonce |-> 4, counter |-> c] : c \in {0, CounterMod - 1}}
ManifestVersions == {"v1", "v2", "v3", "none"}
ManifestShapes == {"entries", "pointers", "folders", "garbage"}
DecodePaths == {"bootstrap", "refresh", "lookup"}

RangeCalls ==
    {[fn |-> "decrypt_aes_ctr_range", done |-> FALSE, len |-> len, iv |-> iv,
      start_byte |-> a, end_byte |-> b] :
        len \in 0..MaxCtLen, iv \in Ivs, a \in 0..MaxCtLen + 1, b \in 0..MaxCtLen + 1}

DecodeCalls ==
    {[fn |-> f, done |-> FALSE, path |-> p, envelope_ok |-> e, sealed |-> Sealed(k, v, sh)] :
        f \in {"decrypt_metadata_from_ipfs"}, p \in DecodePaths, e \in BOOLEAN,
        k \in BOOLEAN, v \in ManifestVersions, sh \in ManifestShapes}
    \cup
    {[fn |-> f, done |-> FALSE, path |-> "", envelope_ok |-> TRUE, sealed |-> Sealed(k, v, sh)] :
        f \in {"decrypt_folder_metadata", "decrypt_any_folder_metadata"},
        k \in BOOLEAN, v \in ManifestVersions, sh \in ManifestShapes}

CryptoUnchanged ==
    UNCHANGED <<inodes, metadata_cache, content_cache, open_files, next_fh, refresh_rx,
                mutated_folders, prefetching, content_rx, pending_content, upload_rx,
                publish_queue, seq_cache, publish_locks, threads, uploads,
                refresh_tasks, prefetch_tasks, ns, now, netfail, write_queue, hist>>

Returns(result) ==
    /\ ~call.done
    /\ call' = [fn |-> call.fn, done |-> TRUE, args |-> call, result |-> result]
    /\ CryptoUnchanged

DecryptRange ==
    /\ call.fn = "decrypt_aes_ctr_range"
    /\ Returns(decrypt_aes_ctr_range(Ciphertext(call.len), call.iv, call.start_byte,
                                     call.end_byte))

DecodeFromIpfs ==
    /\ call.fn = "decrypt_metadata_from_ipfs"
    /\ Returns(decrypt_metadata_from_ipfs(call.envelope_ok, call.sealed))

DecodeFolder ==
    /\ call.fn = "decrypt_folder_metadata"
    /\ Returns(decrypt_folder_metadata(call.sealed))

DecodeAny ==
    /\ call.fn = "decrypt_any_folder_metadata"
    /\ Returns(decrypt_any_folder_metadata(call.sealed))

InitCrypto ==
    /\ MountedEmpty
    /\ write_queue = NewWriteQueue(DEFAULT_MAX_RETRIES)
    /\ call \in RangeCalls \cup DecodeCalls

NextCrypto ==
    \/ DecryptRange
    \/ DecodeFromIpfs
    \/ DecodeFolder
    \/ DecodeAny

SpecCrypto == InitCrypto /\ [][NextCrypto]_vars

\* The file callbacks with the upload and prefetch tasks.
NextFile ==
    \/ \E i \in Inos : Getattr(i)
    \/ \E p \in Inos, n \in Names : Create(p, n)
    \/ \E i \in Inos, w \in BOOLEAN, ok \in BOOLEAN : Open(i, w, ok)
    \/ \E fh \in Fhs, o \in Offsets, d \in WriteData : Write(fh, o, d)
    \/ \E fh \in Fhs, o \in Offsets, z \in ReadSizes, tm \in {Arrives, Late} : Read(fh, o, z, tm)
    \/ \E fh \in Fhs : Release(fh)
    \/ \E f \in Inos : FlushPublishQueue(f)
    \/ \E k \in 1..MaxUploads, ok \in BOOLEAN : UploadDone(k, ok)
    \/ \E c \in {RemoteCid} \cup 1..MaxUploads, ok \in BOOLEAN : PrefetchDone(c, ok)

SpecFile == Init /\ [][NextFile]_vars

\* ------------------------------------------------------ publish coordinator
\* PublishCoordinator::get_cached; -1 is None.
get_cached(cache, ipns_name) ==
    IF ipns_name \in DOMAIN cache THEN cache[ipns_name] ELSE -1

update_cache_overwrite(cache, ipns_name, seq) == MapPut(cache, ipns_name, seq)

\* PublishCoordinator::update_cache: the entry only ever rises.
update_cache(cache, ipns_name, seq) ==
    LET entry == IF ipns_name \in DOMAIN cache THEN cache[ipns_name] ELSE 0
    IN MapPut(cache, ipns_name, IF seq > entry THEN seq ELSE entry)

record_publish_skipped(cache, ipns_name, published_seq) == cache

\* PublishCoordinator::record_publish
record_publish(cache, ipns_name, published_seq) ==
    update_cache(cache, ipns_name, published_seq)

\* The response of resolve_ipns: ok = FALSE is Err; digits = FALSE is a
\* sequenceNumber text that is not a decimal number.
ResolveResponse(ok, digits, value) == [ok |-> ok, digits |-> digits, value |-> value]

\* str::parse::<u64> on the sequenceNumber text; a failure is logged and
\* replaced by 0.
parse_sequence(resp) == IF resp.digits THEN resp.value ELSE 0

resolve_sequence_unclamped(resp, cached) ==
    IF resp.ok THEN [ok |-> TRUE, seq |-> parse_sequence(resp), store |-> TRUE]
    ELSE IF cached >= 0 THEN [ok |-> TRUE, seq |-> cached, store |-> FALSE]
    ELSE [ok |-> FALSE, seq |-> -1, store |-> FALSE]

\* PublishCoordinator::resolve_sequence, from the response and the cached
\* value read after it.  store: update_cache is called with seq.
resolve_sequence(resp, cached) ==
    IF resp.ok
    THEN [ok |-> TRUE, seq |-> Max(parse_sequence(resp), IF cached >= 0 THEN cached ELSE 0),
          store |-> TRUE]
    ELSE IF cached >= 0 THEN [ok |-> TRUE, seq |-> cached, store |-> FALSE]
    ELSE [ok |-> FALSE, seq |-> -1, store |-> FALSE]

\* The responses the name service can give for a name: 404 when it holds no
\* record; otherwise the latest record, an older one (a stale resolver), a
\* malformed sequence text, or a transport error.
Responses(ipns_name) ==
    IF ns[ipns_name] = <<>> THEN {ResolveResponse(FALSE, FALSE, 0)}
    ELSE {ResolveResponse(TRUE, TRUE, ns[ipns_name][k].seq) : k \in DOMAIN ns[ipns_name]}
         \cup {ResolveResponse(TRUE, FALSE, 0), ResolveResponse(FALSE, FALSE, 0)}

\* The answer of a healthy name service: the highest sequence it holds.
LatestSeq(ipns_name) ==
    CHOOSE v \in {ns[ipns_name][k].seq : k \in DOMAIN ns[ipns_name]} :
        \A k \in DOMAIN ns[ipns_name] : ns[ipns_name][k].seq <= v

Faulty(ipns_name, resp) ==
    ns[ipns_name] /= <<>> /\ resp /= ResolveResponse(TRUE, TRUE, LatestSeq(ipns_name))

\* Dropping the guard of the per-name publish lock.
Unlock(locks, ipns_name, i) ==
    IF ipns_name \in DOMAIN locks /\ locks[ipns_name] = i
    THEN [locks EXCEPT ![ipns_name] = 0] ELSE locks

dispatcherVars == <<inodes, metadata_cache, content_cache, open_files, next_fh, refresh_rx,
                    mutated_folders, prefetching, content_rx, pending_content, upload_rx,
                    publish_queue, uploads, refresh_tasks, prefetch_tasks, now, hist>>

\* ---------------------------------------------------- publish thread steps
\* The thread ends with an error: the lock guard, if held, is dropped.
ThreadFails(i) ==
    /\ threads' = [threads EXCEPT ![i].pc = "failed"]
    /\ publish_locks' = Unlock(publish_locks, threads[i].ipns_name, i)

\* mkdir thread: upload of the new folder's empty manifest.
ChildUpload(i, ok) ==
    /\ i \in DOMAIN threads /\ threads[i].pc = "c_upload"
    /\ IF ok THEN /\ threads' = [threads EXCEPT ![i].pc = "c_publish"]
                  /\ UNCHANGED publish_locks
       ELSE ThreadFails(i)
    /\ netfail' = (netfail \/ ~ok)
    /\ UNCHANGED <<dispatcherVars, syncVars, seq_cache, ns>>

\* mkdir thread: publish of the new folder's record at sequence 0.
ChildPublish(i, ok) ==
    /\ i \in DOMAIN threads /\ threads[i].pc = "c_publish"
    /\ IF ok THEN /\ threads' = [threads EXCEPT ![i].pc = "c_record"]
                  /\ ns' = [ns EXCEPT ![threads[i].child_name] =
                               Append(@, Record(0, FolderMetadata("v2", <<>>), TRUE))]
                  /\ UNCHANGED publish_locks
       ELSE ThreadFails(i) /\ UNCHANGED ns
    /\ netfail' = (netfail \/ ~ok)
    /\ UNCHANGED <<dispatcherVars, syncVars, seq_cache>>

\* mkdir thread: record_publish(new folder, 0).
ChildRecord(i) ==
    /\ i \in DOMAIN threads /\ threads[i].pc = "c_record"
    /\ seq_cache' = record_publish(seq_cache, threads[i].child_name, 0)
    /\ threads' = [threads EXCEPT ![i].pc = "lock"]
    /\ UNCHANGED <<dispatcherVars, syncVars, publish_locks, ns, netfail>>

AcquireLockUnserialized(i) ==
    /\ i \in DOMAIN threads /\ threads[i].pc = "lock"
    /\ publish_locks' = MapPut(publish_locks, threads[i].ipns_name, i)
    /\ threads' = [threads EXCEPT ![i].pc = "resolve"]
    /\ UNCHANGED <<dispatcherVars, syncVars, seq_cache, ns, netfail>>

\* get_lock(name) and lock().await: the thread proceeds once it holds the lock.
AcquireLock(i) ==
    /\ i \in DOMAIN threads /\ threads[i].pc = "lock"
    /\ get_cached(publish_locks, threads[i].ipns_name) <= 0
    /\ publish_locks' = MapPut(publish_locks, threads[i].ipns_name, i)
    /\ threads' = [threads EXCEPT ![i].pc = "resolve"]
    /\ UNCHANGED <<dispatcherVars, syncVars, seq_cache, ns, netfail>>

\* resolve_sequence: the resolve_ipns call returns.
ResolveCall(i, resp) ==
    /\ i \in DOMAIN threads /\ threads[i].pc = "resolve"
    /\ resp \in Responses(threads[i].ipns_name)
    /\ threads' = [threads EXCEPT ![i].pc = "get_cached", ![i].resp = resp]
    /\ netfail' = (netfail \/ Faulty(threads[i].ipns_name, resp))
    /\ UNCHANGED <<dispatcherVars, syncVars, seq_cache, publish_locks, ns>>

\* resolve_sequence: get_cached, and the value to return.
GetCached(i) ==
    /\ i \in DOMAIN threads /\ threads[i].pc = "get_cached"
    /\ LET cached == get_cached(seq_cache, threads[i].ipns_name)
           r == resolve_sequence(threads[i].resp, cached)
       IN IF ~r.ok THEN ThreadFails(i)
          ELSE /\ threads' = [threads EXCEPT ![i].cached = cached, ![i].seq = r.seq,
                                             ![i].pc = IF r.store THEN "update_cache"
                                                       ELSE "upload"]
               /\ UNCHANGED publish_locks
    /\ UNCHANGED <<dispatcherVars, syncVars, seq_cache, ns, netfail>>

\* resolve_sequence: update_cache(name, seq).
UpdateCache(i) ==
    /\ i \in DOMAIN threads /\ threads[i].pc = "update_cache"
    /\ seq_cache' = update_cache(seq_cache, threads[i].ipns_name, threads[i].seq)
    /\ threads' = [threads EXCEPT ![i].pc = "upload"]
    /\ UNCHANGED <<dispatcherVars, syncVars, publish_locks, ns, netfail>>

\* upload_content of the encrypted manifest.
ManifestUpload(i, ok) ==
    /\ i \in DOMAIN threads /\ threads[i].pc = "upload"
    /\ IF ok THEN /\ threads' = [threads EXCEPT ![i].pc = "publish"]
                  /\ UNCHANGED publish_locks
       ELSE ThreadFails(i)
    /\ netfail' = (netfail \/ ~ok)
    /\ UNCHANGED <<dispatcherVars, syncVars, seq_cache, ns>>

\* publish_ipns of the record signed at seq + 1.
Publish(i, ok) ==
    /\ i \in DOMAIN threads /\ threads[i].pc = "publish"
    /\ IF ok THEN /\ threads' = [threads EXCEPT ![i].pc = "record"]
                  /\ ns' = [ns EXCEPT ![threads[i].ipns_name] =
                               Append(@, Record(threads[i].seq + 1, threads[i].metadata, TRUE))]
                  /\ UNCHANGED publish_locks
       ELSE ThreadFails(i) /\ UNCHANGED ns
    /\ netfail' = (netfail \/ ~ok)
    /\ UNCHANGED <<dispatcherVars, syncVars, seq_cache>>

\* record_publish(name, seq + 1); the thread ends and drops the lock guard.
RecordPublish(i) ==
    /\ i \in DOMAIN threads /\ threads[i].pc = "record"
    /\ seq_cache' = record_publish(seq_cache, threads[i].ipns_name, threads[i].seq + 1)
    /\ threads' = [threads EXCEPT ![i].pc = "done"]
    /\ publish_locks' = Unlock(publish_locks, threads[i].ipns_name, i)
    /\ UNCHANGED <<dispatcherVars, syncVars, ns, netfail>>

ThreadIds == 1..MaxThreads
AllResponses ==
    {ResolveResponse(ok, d, v) : ok \in BOOLEAN, d \in BOOLEAN, v \in 0..(MaxRemoteSeq + MaxThreads)}

\* The mutations that publish at once, with the publish threads.
NextPublish ==
    \/ \E p \in Inos, n \in Names : Mkdir(p, n)
    \/ \E p \in Inos, n \in Names : Unlink(p, n)
    \/ \E p \in Inos, n \in Names : Rmdir(p, n)
    \/ \E i \in ThreadIds, ok \in BOOLEAN : ChildUpload(i, ok)
    \/ \E i \in ThreadIds, ok \in BOOLEAN : ChildPublish(i, ok)
    \/ \E i \in ThreadIds : ChildRecord(i)
    \/ \E i \in ThreadIds : AcquireLock(i)
    \/ \E i \in ThreadIds, resp \in AllResponses : ResolveCall(i, resp)
    \/ \E i \in ThreadIds : GetCached(i)
    \/ \E i \in ThreadIds : UpdateCache(i)
    \/ \E i \in ThreadIds, ok \in BOOLEAN : ManifestUpload(i, ok)
    \/ \E i \in ThreadIds, ok \in BOOLEAN : Publish(i, ok)
    \/ \E i \in ThreadIds : RecordPublish(i)

SpecPublish == Init /\ [][NextPublish]_vars

\* The callbacks that release a file and mutate its folder, with the upload
\* threads, the publish queue and the publish threads.
NextSettle ==
    \/ \E i \in Inos : Getattr(i)
    \/ \E p \in Inos, n \in Names : Create(p, n)
    \/ \E fh \in Fhs : Release(fh)
    \/ \E p \in Inos, n \in Names : Mkdir(p, n)
    \/ \E p \in Inos, n \in Names : Unlink(p, n)
    \/ \E f \in Inos : FlushPublishQueue(f)
    \/ \E k \in 1..MaxUploads, ok \in BOOLEAN : UploadDone(k, ok)
    \/ \E i \in ThreadIds, ok \in BOOLEAN : ChildUpload(i, ok)
    \/ \E i \in ThreadIds, ok \in BOOLEAN : ChildPublish(i, ok)
    \/ \E i \in ThreadIds : ChildRecord(i)
    \/ \E i \in ThreadIds : AcquireLock(i)
    \/ \E i \in ThreadIds, resp \in AllResponses : ResolveCall(i, resp)
    \/ \E i \in ThreadIds : GetCached(i)
    \/ \E i \in ThreadIds : UpdateCache(i)
    \/ \E i \in ThreadIds, ok \in BOOLEAN : ManifestUpload(i, ok)
    \/ \E i \in ThreadIds, ok \in BOOLEAN : Publish(i, ok)
    \/ \E i \in ThreadIds : RecordPublish(i)

SpecSettle == Init /\ [][NextSettle]_vars

\* The timings of a poll: a notice at the first poll, at the 3 s mark, within
\* the turn after it, and after every poll; a loop of exact sleeps and of
\* sleeps that run over.
NoticeTimes == {POLL_INTERVAL_MS, MAX_WAIT_MS, MAX_WAIT_MS + POLL_INTERVAL_MS, NoNotice}
Lags == {0, 1}
Timings == {Timing(at, ok, lag) : at \in NoticeTimes, ok \in BOOLEAN, lag \in Lags}

\* The callbacks that start and use content prefetches, with the upload and
\* prefetch tasks.
NextPrefetch ==
    \/ \E i \in Inos : Getattr(i)
    \/ \E i \in Inos : Readdir(i)
    \/ \E p \in Inos, n \in Names : Create(p, n)
    \/ \E i \in Inos, w \in BOOLEAN, ok \in BOOLEAN : Open(i, w, ok)
    \/ \E fh \in Fhs, o \in Offsets, z \in ReadSizes, tm \in Timings : Read(fh, o, z, tm)
    \/ \E fh \in Fhs : Release(fh)
    \/ \E k \in 1..MaxUploads, ok \in BOOLEAN : UploadDone(k, ok)
    \/ \E c \in {RemoteCid} \cup 1..MaxUploads, ok \in BOOLEAN : PrefetchDone(c, ok)

SpecPrefetch == Init /\ [][NextPrefetch]_vars

\* ------------------------------------------------------------------ claims
\* A step that drains the refresh channel (lookup and readdir do).
DrainsRefresh == refresh_rx /= <<>> /\ refresh_rx' = <<>>

\* Child i is linked under its parent: in the table, in the name index and
\* on the parent's children list.
Linked(t, i) ==
    /\ Has(t, i)
    /\ find_child(t, Get(t, i).parent_ino, Get(t, i).name) = i
    /\ i \in Range(ChildrenOf(t, Get(t, i).parent_ino))

\* C1: applying a background refresh completion never removes a child that
\* was added by a local mutation and that the fetched manifest does not list,
\* at any time after the mutation (also after the 30 s cooldown).
C1_RefreshNeverDropsLocalChild ==
    [][DrainsRefresh =>
          \A i \in hist.local_new :
              (Linked(inodes, i) /\ ~Listed(inodes, refresh_rx, i)) => Linked(inodes', i)]_vars

\* C2: a refresh completion drained less than 30 s after a local mutation of
\* folder F leaves the children of F exactly as they were, each still listed
\* and found by name.
C2_RefreshWithinCooldownKeepsChildren ==
    [][DrainsRefresh =>
          \A f \in DOMAIN hist.last_mut :
              now - hist.last_mut[f] < COOLDOWN_SECS =>
                  /\ ChildrenOf(inodes', f) = ChildrenOf(inodes, f)
                  /\ \A c \in Range(ChildrenOf(inodes, f)) :
                         Linked(inodes, c) => Linked(inodes', c)]_vars

\* The records this process published under a name, in the order they
\* reached the name service.
LocalRecords(ipns_name) == SelectSeq(ns[ipns_name], LAMBDA rec : rec.local)

Published(th) == th.pc \in {"record", "done"}

\* The names mkdir derives for the folders it creates.
MkdirNames == {derive_ipns_name(i) : i \in 2..MaxIno}

\* C3: every published parent manifest that lists a subfolder created by
\* mkdir is published only after the subfolder's own record exists in the
\* name service.
C3_ParentPublishedAfterSubfolderRecord ==
    \A n \in DOMAIN ns : \A k \in DOMAIN ns[n] :
        ns[n][k].local =>
            \A e \in Range(ns[n][k].metadata.children) :
                (e.type = "folder" /\ e.ipns_name \in MkdirNames) => ns[e.ipns_name] /= <<>>

\* C4: publish pipelines of this process on one name come out with
\* consecutive sequence numbers: each published record carries the value
\* its resolve_sequence returned plus one, and two pipelines that follow each
\* other on the name carry r+1 and r+2, never the same number.
C4_ConcurrentPipelinesConsecutive ==
    /\ \A i \in DOMAIN threads :
          Published(threads[i]) =>
              \E k \in DOMAIN ns[threads[i].ipns_name] :
                  ns[threads[i].ipns_name][k] =
                      Record(threads[i].seq + 1, threads[i].metadata, TRUE)
    /\ \A n \in DOMAIN ns :
          \A k \in DOMAIN LocalRecords(n) :
              k > 1 => LocalRecords(n)[k].seq = LocalRecords(n)[k - 1].seq + 1

C4_TwoPipelinesPublished ==
    \E i, j \in DOMAIN threads :
        /\ i /= j /\ threads[i].ipns_name = threads[j].ipns_name
        /\ threads[i].pc = "done" /\ threads[j].pc = "done"
        /\ threads[j].seq = threads[i].seq + 1

\* C5: under every name the sequence numbers of the records this process
\* published are strictly increasing in the order they reached the name
\* service, also after failed or stale resolutions.
C5_PublishedSequencesIncrease ==
    \A n \in DOMAIN ns :
        \A k, l \in DOMAIN LocalRecords(n) :
            k < l => LocalRecords(n)[k].seq < LocalRecords(n)[l].seq

C5_PublishedAfterBadResolve ==
    \E i \in DOMAIN threads :
        /\ Published(threads[i])
        /\ Len(LocalRecords(threads[i].ipns_name)) >= 2
        /\ \/ ~threads[i].resp.ok
           \/ parse_sequence(threads[i].resp) < threads[i].cached

\* C6: the value the sequence cache holds for a name never decreases, and an
\* entry never disappears.
C6_SeqCacheNeverDecreases ==
    [][\A n \in DOMAIN seq_cache :
          n \in DOMAIN seq_cache' /\ seq_cache'[n] >= seq_cache[n]]_vars

C6_LowerValueOffered ==
    \E i \in DOMAIN threads :
        /\ threads[i].kind = "mkdir" /\ threads[i].pc = "lock"
        /\ get_cached(seq_cache, threads[i].child_name) >= 1

\* C7: resolve_sequence returns max(resolved, cached) and stores it when the
\* resolution succeeds; returns the cached value, leaving the cache as it is,
\* when the resolution fails and a value is cached; fails, leaving the cache
\* without an entry, when the resolution fails and nothing is cached; the
\* value returned is never below the cached one.
C7_ResolveSequenceCases ==
    [][\A i \in DOMAIN threads :
          LET th == threads[i]
              c == get_cached(seq_cache, th.ipns_name)
          IN /\ (th.pc = "get_cached" /\ threads'[i].pc /= "get_cached") =>
                   /\ seq_cache' = seq_cache
                   /\ IF th.resp.ok
                      THEN /\ threads'[i].pc = "update_cache"
                           /\ threads'[i].seq =
                                 Max(IF th.resp.digits THEN th.resp.value ELSE 0,
                                     IF c >= 0 THEN c ELSE 0)
                           /\ threads'[i].seq >= c
                      ELSE IF c >= 0
                           THEN threads'[i].pc = "upload" /\ threads'[i].seq = c
                           ELSE /\ threads'[i].pc = "failed"
                                /\ th.ipns_name \notin DOMAIN seq_cache'
             /\ (th.pc = "update_cache" /\ threads'[i].pc /= "update_cache") =>
                   get_cached(seq_cache', th.ipns_name) = th.seq]_vars

C7_FallbackToCached ==
    \E i \in DOMAIN threads :
        /\ threads[i].pc = "upload" /\ ~threads[i].resp.ok
        /\ threads[i].cached >= 1 /\ threads[i].seq = threads[i].cached

Quiescent ==
    /\ \A i \in DOMAIN threads : Terminated(threads[i])
    /\ publish_queue = {} /\ upload_rx = <<>>
    /\ \A k \in DOMAIN uploads : uploads[k].status /= "inflight"

\* C8: once the mutations of a folder have stopped, no network operation has
\* failed and no publish work is left, a record of this process exists for
\* the folder whose manifest is the folder's final in-memory children.
C8_FinalStatePublished ==
    (Quiescent /\ ~netfail) =>
        \A f \in DOMAIN hist.last_mut :
            LET b == build_folder_metadata(inodes, f)
            IN b.ok =>
                 \E k \in DOMAIN ns[b.ipns_name] :
                     /\ ns[b.ipns_name][k].local
                     /\ ns[b.ipns_name][k].metadata.children = b.metadata.children

\* C9: when mkdir(parent/new/child) is issued while the thread of
\* mkdir(parent/new) is still running and no network operation fails, the
\* record of new is published at sequence 0 with the empty manifest and
\* afterwards at a higher sequence with a manifest listing child.
C9_NestedMkdirBothPublished ==
    \A i, j \in DOMAIN threads :
        ( /\ j \in hist.early /\ i < j
          /\ threads[i].kind = "mkdir" /\ threads[j].kind = "mkdir"
          /\ threads[j].ipns_name = threads[i].child_name
          /\ Terminated(threads[i]) /\ Terminated(threads[j]) /\ ~netfail )
        => \E k, l \in DOMAIN ns[threads[i].child_name] :
              LET first == ns[threads[i].child_name][k]
                  second == ns[threads[i].child_name][l]
              IN /\ k < l
                 /\ first.seq = 0 /\ first.metadata.children = <<>>
                 /\ second.seq > 0
                 /\ \E e \in Range(second.metadata.children) :
                       e.ipns_name = threads[j].child_name

\* C10: after write(data) and release on a file, and until the next write,
\* every read returns exactly data and getattr reports len(data), while the
\* upload is in flight and after its completion was drained, without waiting
\* for the network.
C10_ReadAfterReleaseSeesData ==
    \A ino \in DOMAIN hist.content :
        Has(inodes, ino) =>
            /\ GetattrReply(ino) = Len(hist.content[ino])
            /\ \A fh \in DOMAIN open_files :
                  open_files[fh].ino = ino =>
                      ReadReply(fh, 0, MaxRead) = [err |-> "", data |-> hist.content[ino]]


\* ------------------------------------------------------------ inode table
\* The reply of a lookup callback issued in the current state: both drains
\* run first, then the name is resolved.
LookupReply(parent, name) ==
    lookup_reply(drain_refresh_completions(drain_upload_completions.inodes, TRUE).inodes,
                 parent, name)

\* rename replies ok: the source resolves and the destination, if any, is
\* not a folder with children.
RenameReplyOk(parent, name, newparent, newname) ==
    /\ find_child(inodes, parent, name) /= 0
    /\ ~(/\ Has(inodes, find_child(inodes, newparent, newname))
         /\ Get(inodes, find_child(inodes, newparent, newname)).kind = "Folder"
         /\ ChildrenOf(inodes, find_child(inodes, newparent, newname)) /= <<>>)

\* The state after a successful rename of the entry with id src: the inode
\* is still there under its id, a lookup of the new path replies with it, a
\* lookup of the old path finds nothing, and a move between two folders has
\* queued one publish per parent.
RenameEffect(src, parent, name, newparent, newname) ==
    /\ Has(inodes', src)
    /\ LookupReply(newparent, newname)' = src
    /\ LookupReply(parent, name)' = 0
    /\ parent /= newparent => Len(threads') = Len(threads) + 2

\* C11: after every successful rename the renamed inode still exists under
\* the id it had, a lookup of the new path replies with that id, a lookup of
\* the old path replies not-found, and a rename across folders queues two
\* parent publishes.
C11_RenameMovesEntry ==
    [][\A parent \in Inos, newparent \in Inos, name \in Names, newname \in Names :
         (RenameReplyOk(parent, name, newparent, newname)
          /\ Rename(parent, name, newparent, newname))
         => RenameEffect(find_child(inodes, parent, name), parent, name, newparent, newname)]_vars


\* Every inode below the root is found under its own parent and name.
InodesIndexed(t) ==
    \A i \in DOMAIN t.inodes \ {ROOT_INO} :
        find_child(t, t.inodes[i].parent_ino, t.inodes[i].name) = i

\* Every entry of the name index leads to an inode that is present under
\* the parent and the name of the entry.
IndexResolves(t) ==
    \A k \in DOMAIN t.name_to_ino :
        /\ Has(t, t.name_to_ino[k])
        /\ Get(t, t.name_to_ino[k]).parent_ino = k[1]
        /\ Get(t, t.name_to_ino[k]).name = k[2]

\* C12: after any sequence of create, mkdir, unlink, rmdir, rename and
\* populate, every inode below the root is found by find_child under its
\* parent and name, and every entry of the name index points to an inode
\* present under that parent and name.
C12_NameIndexMatchesInodes == InodesIndexed(inodes) /\ IndexResolves(inodes)


\* The ids the name index files under directory d.
IndexedUnder(t, d) == {t.name_to_ino[k] : k \in {x \in DOMAIN t.name_to_ino : x[1] = d}}

\* The children list of directory d agrees with the name index and with the
\* inodes it lists.
ChildrenListSound(t, d) ==
    LET ch == t.inodes[d].children
    IN /\ Range(ch) = IndexedUnder(t, d)
       /\ \A i, j \in DOMAIN ch : i /= j => ch[i] /= ch[j]
       /\ \A i \in DOMAIN ch : Has(t, ch[i]) /\ Get(t, ch[i]).parent_ino = d
       /\ \A i, j \in DOMAIN ch :
             (i /= j /\ Has(t, ch[i]) /\ Has(t, ch[j]))
             => Get(t, ch[i]).name /= Get(t, ch[j]).name

\* C13: for every directory with a children list, after any sequence of
\* operations (a create or mkdir of a present name and a failed populate
\* included), the listed ids and the ids indexed by name under it are the
\* same set, no id is listed twice, no two children share a name, and every
\* listed id is an existing inode whose parent is that directory.
C13_ChildrenListMatchesIndex ==
    \A d \in DOMAIN inodes.inodes :
        (IsDir(inodes, d) /\ inodes.inodes[d].children_some) => ChildrenListSound(inodes, d)


\* C14: after any sequence of operations, the parent id of every inode
\* below the root refers to an inode that is present in the table and is a
\* directory (the root or a folder).
C14_ParentIsPresentDirectory ==
    \A i \in DOMAIN inodes.inodes \ {ROOT_INO} : IsDir(inodes, inodes.inodes[i].parent_ino)


\* The names of the inodes on the children list of directory d.
ChildNames(t, d) == {Get(t, c).name : c \in {x \in Range(ChildrenOf(t, d)) : Has(t, x)}}

\* populate as fetch_and_populate_folder calls it, with a merge_only flag.
\* populate_folder and populate_folder_v2 take no such parameter: whatever
\* the flag, children absent from the manifest are removed.
populate(t, parent_ino, metadata, merge_only) == populate_folder_any(t, parent_ino, metadata)

\* The child names a successful populate of directory d leaves behind are
\* those of the manifest, joined with the previous ones when merge_only.
PopulateNames(d, metadata, merge_only) ==
    populate(inodes, d, metadata, merge_only).ok
    => ChildNames(populate(inodes, d, metadata, merge_only).t, d)
       = IF merge_only THEN ChildNames(inodes, d) \cup ManifestNames(metadata)
         ELSE ManifestNames(metadata)

\* C15: after a successful populate(parent, m, merge_only = false) the child
\* names of parent are exactly the names in m; after a successful
\* populate(parent, m, merge_only = true) they are the previous child names
\* together with the names in m.
C15_PopulateChildNames ==
    \A d \in DOMAIN inodes.inodes, metadata \in TableManifests, merge_only \in BOOLEAN :
        IsDir(inodes, d) => PopulateNames(d, metadata, merge_only)


\* The ids of the children of directory d that carry name n.
ChildIds(t, d, n) == {c \in Range(ChildrenOf(t, d)) : Has(t, c) /\ Get(t, c).name = n}

\* A populate that turns table t into table u keeps the id of every child
\* name of d present in both, and the ids it allocated belong to names that
\* were not present in t.
PopulateKeepsIds(t, u, d) ==
    /\ \A n \in ChildNames(t, d) \cap ChildNames(u, d) : ChildIds(u, d, n) \subseteq ChildIds(t, d, n)
    /\ \A c \in Range(ChildrenOf(u, d)) :
          (Has(u, c) /\ c >= t.next_ino) => Get(u, c).name \notin ChildNames(t, d)

\* C16: for any populate call on a folder, every child name present both
\* before and after the call keeps its inode id, and a new id is allocated
\* only for names that were not present before the call.
C16_PopulateReusesIds ==
    \A d \in DOMAIN inodes.inodes, metadata \in TableManifests :
        IsDir(inodes, d) => PopulateKeepsIds(inodes, populate_folder_any(inodes, d, metadata).t, d)


\* Every id in use lies between the first id allocate_ino hands out and the
\* allocation counter.
IdsBelowCounter(t) ==
    /\ t.next_ino >= 2
    /\ \A i \in DOMAIN t.inodes \ {ROOT_INO} : 2 <= i /\ i < t.next_ino

\* A step never lowers the allocation counter, and an inode that appears in
\* the table in a step carries an id that had not been handed out before
\* the step.
FreshIdsOnly ==
    /\ inodes'.next_ino >= inodes.next_ino
    /\ \A i \in DOMAIN inodes'.inodes : i \notin DOMAIN inodes.inodes => i >= inodes.next_ino

\* C17: allocate_ino returns strictly increasing ids starting at 2 and no id
\* is handed out twice, so an inode that enters the table never takes the id
\* of an inode that was removed.
C17_IdsNeverReused == [][IdsBelowCounter(inodes) /\ FreshIdsOnly]_vars


\* The other spelling of a name that has two.
OtherSpelling(n) == IF n = Decomposed THEN Composed ELSE IF n = Composed THEN Decomposed ELSE n

\* C18: find_child treats names with the same NFC normal form as one name:
\* a child filed under the composed or the decomposed spelling is found
\* under the other spelling too.
C18_SpellingsFindSameChild ==
    \A k \in DOMAIN inodes.name_to_ino :
        find_child(inodes, k[1], OtherSpelling(k[2])) = inodes.name_to_ino[k]


\* The reply of create and of mkdir up to the point where the inode is
\* built: EACCES for a platform-noise name, ENOENT for a parent that is not
\* a directory.
create_reply(t, parent, name) ==
    IF is_platform_special(name) THEN "EACCES"
    ELSE IF ~IsDir(t, parent) THEN "ENOENT" ELSE "ok"

\* The names a readdir callback issued in the current state lists: the
\* refresh completions are drained first.
ReaddirReply(ino) ==
    Range(ListedNames(drain_refresh_completions(inodes, TRUE).inodes,
                      ChildrenOf(drain_refresh_completions(inodes, TRUE).inodes, ino)))

\* Directory d has its children loaded once the pending refreshes are
\* drained.
LoadedDir(t, d) == IsDir(t, d) /\ (Get(t, d).kind = "Folder" => Get(t, d).children_loaded)

\* Platform-noise names are refused by create and mkdir, are never found
\* and never listed.
NoiseHidden ==
    \A n \in PlatformNames, p \in Inos :
        /\ create_reply(inodes, p, n) = "EACCES"
        /\ LookupReply(p, n) = 0
        /\ n \notin ReaddirReply(p)

\* In a loaded directory a name that is not platform noise is listed
\* exactly when its lookup succeeds.
ListedIffFound ==
    \A d \in DOMAIN inodes.inodes, n \in (TableNames \cup Names) \ PlatformNames :
        (LoadedDir(drain_refresh_completions(inodes, TRUE).inodes, d)
         /\ upload_rx = <<>>)
        => (n \in ReaddirReply(d) <=> LookupReply(d, n) /= 0)

\* A create or mkdir of a platform-noise name leaves the inode table as it
\* was.
NoiseNotCreated ==
    \A n \in PlatformNames, p \in Inos :
        (CreateInode(p, n) \/ MkdirInode(p, n)) => inodes' = inodes

\* C19: for every platform-noise name create and mkdir reply ACCESS-DENIED
\* and leave the inode table unchanged, lookup replies not-found and readdir
\* never lists it; every other name in a loaded directory is listed by
\* readdir exactly when its lookup succeeds.
C19_NoiseHiddenOthersConsistent ==
    [][NoiseNotCreated /\ NoiseHidden /\ ListedIffFound]_vars


\* The blocking network requests that drain_refresh_completions makes when
\* a lookup or readdir is called in the current state.
DrainCalls ==
    DrainNetworkCalls(inodes, ExpireCooldowns(mutated_folders, now), refresh_rx, TRUE)

\* C20: lookup and readdir never wait for a network response: the drain of
\* the refresh completions at the start of the callback makes no network
\* request.
C20_DrainMakesNoNetworkCall == DrainCalls = 0


\* ---------------------------------------------------------------- bootstrap
\* Every child that manifest `metadata` lists for directory d is found by
\* lookup and listed by readdir in table t.
ChildrenVisible(t, d, metadata) ==
    \A n \in ManifestNames(metadata) :
        /\ lookup_reply(t, d, n) /= 0
        /\ n \in Range(ListedNames(t, ChildrenOf(t, d)))

\* A directory whose bootstrap load failed and for which no refresh
\* completion has been drained yet is shown empty.
FailedShownEmpty ==
    \A d \in hist.boot_failed :
        (Has(inodes, d) /\ Get(inodes, d).ipns_name \notin DOMAIN metadata_cache
         /\ d \notin DOMAIN hist.last_mut)
        => ChildrenOf(inodes, d) = <<>>

\* The directories whose bootstrap load failed and for which the drained
\* channel holds a completion; the last such completion in the channel.
RefreshedFailed ==
    {d \in hist.boot_failed : \E k \in DOMAIN refresh_rx : refresh_rx[k].ino = d}

LastRefresh(d) ==
    CHOOSE k \in DOMAIN refresh_rx :
        /\ refresh_rx[k].ino = d
        /\ \A j \in DOMAIN refresh_rx : refresh_rx[j].ino = d => j <= k

RefreshApplies(k) ==
    LET mf == ExpireCooldowns(mutated_folders, now)
        before == DrainRefreshes(inodes, mf, metadata_cache, SubSeq(refresh_rx, 1, k - 1),
                                 now, TRUE).inodes
    IN /\ refresh_rx[k].ino \notin DOMAIN mf
       /\ populate_folder_any(before, refresh_rx[k].ino, refresh_rx[k].metadata).ok

CacheOp == hist'.cache_log[Len(hist'.cache_log)]

IsCacheSet == Len(hist'.cache_log) > Len(hist.cache_log) /\ CacheOp.op = "set"

\* The entries a set leaves alone or evicts: all but the one it replaces.
Others(cc, cid) == DOMAIN cc.entries \ {cid}

Evicted(cid) == Others(content_cache, cid) \ DOMAIN content_cache'.entries

RECURSIVE SumSizes(_, _)
SumSizes(cc, cids) ==
    IF cids = {} THEN 0
    ELSE LET c == CHOOSE x \in cids : TRUE
         IN cc.entries[c].size + SumSizes(cc, cids \ {c})

\* The entries accessed no earlier than entry e.
NotOlder(cc, cid, e) ==
    {d \in Others(cc, cid) : cc.entries[d].accessed_at >= cc.entries[e].accessed_at}

\* A set evicts the least recently accessed entries first, and evicts an
\* entry only when the new one does not fit beside it and the newer ones.
EvictsOldestUntilFits ==
    IsCacheSet =>
        /\ \A e \in Evicted(CacheOp.cid) :
               /\ \A r \in Others(content_cache', CacheOp.cid) :
                      content_cache.entries[e].accessed_at
                          < content_cache.entries[r].accessed_at
               /\ SumSizes(content_cache, NotOlder(content_cache, CacheOp.cid, e))
                      + CacheOp.size > MAX_CACHE_SIZE
        /\ Others(content_cache', CacheOp.cid) \subseteq Others(content_cache, CacheOp.cid)
        /\ \/ Others(content_cache', CacheOp.cid) = {}
           \/ SumSizes(content_cache', DOMAIN content_cache'.entries) <= MAX_CACHE_SIZE

\* The three inserts of size cap/3 + 1 with a read of the first in between.
LruScenario ==
    <<[op |-> "set", cid |-> "a", size |-> Chunk],
      [op |-> "set", cid |-> "b", size |-> Chunk],
      [op |-> "get", cid |-> "a", size |-> 0],
      [op |-> "set", cid |-> "c", size |-> Chunk]>>

\* C22: a set that must free space evicts entries in increasing order of
\* last access (get or set) and stops as soon as the new entry fits; after
\* set a, set b, get a, set c with sizes of cap/3 + 1 the cache holds a and
\* c and not b.
C22_EvictsLeastRecentlyUsed ==
    [][/\ EvictsOldestUntilFits
       /\ hist'.cache_log = LruScenario => DOMAIN content_cache'.entries = {"a", "c"}]_vars

\* The scenario has run and evicted b.
C22_ScenarioRan ==
    /\ hist.cache_log = LruScenario
    /\ "b" \notin DOMAIN content_cache.entries

\* The cached total is within the cap, or one oversized entry is alone.
WithinCap(cc) ==
    \/ SumSizes(cc, DOMAIN cc.entries) <= MAX_CACHE_SIZE
    \/ \E c \in DOMAIN cc.entries :
           DOMAIN cc.entries = {c} /\ cc.entries[c].size > MAX_CACHE_SIZE

\* C23: after any sequence of get, set and clear the cached total is at
\* most the cap unless the cache holds exactly one entry larger than the
\* cap, and the next set of another CID evicts such an entry.
C23_TotalWithinCap ==
    [][/\ WithinCap(content_cache) /\ WithinCap(content_cache')
       /\ content_cache'.current_size
              = SumSizes(content_cache', DOMAIN content_cache'.entries)
       /\ IsCacheSet =>
              \A c \in Others(content_cache, CacheOp.cid) :
                  content_cache.entries[c].size > MAX_CACHE_SIZE
                  => c \notin DOMAIN content_cache'.entries]_vars

\* An oversized entry was cached alone and the next set evicted it.
C23_OversizedEvicted ==
    /\ Len(hist.cache_log) >= 2
    /\ hist.cache_log[1].op = "set" /\ hist.cache_log[1].size = Oversized
    /\ hist.cache_log[2].op = "set" /\ hist.cache_log[2].cid /= hist.cache_log[1].cid
    /\ hist.cache_log[1].cid \notin DOMAIN content_cache.entries
    /\ content_cache.entries /= EmptyMap

\* ----------------------------------------------------------- metadata cache
\* C24: get(name) at time t returns the entry last stored for name, at time
\* s, exactly when t - s < 30 s and no invalidate or clear came since; from
\* 30 s on it returns None until the next set.
C24_GetWithinTtl ==
    [][LET r == hist'.meta_reply
           stored == hist.meta_stored
       IN r /= hist.meta_reply =>
              IF r.name \in DOMAIN stored
                 /\ r.time - stored[r.name].fetched_at < METADATA_TTL
              THEN r.found /\ r.cid = stored[r.name].cid
                   /\ r.at = stored[r.name].fetched_at
              ELSE ~r.found]_vars

\* A get found none for an entry that is stored and 30 s old.
C24_GetAtTtlBoundary ==
    LET r == hist.meta_reply
    IN /\ r.name \in DOMAIN hist.meta_stored
       /\ r.name \in DOMAIN metadata_cache
       /\ r.time = now
       /\ now - hist.meta_stored[r.name].fetched_at = METADATA_TTL
       /\ ~r.found

\* ------------------------------------------------------------ write handles
\* The length of the temp file of handle fh: the seed, extended by the
\* writes that ended beyond it.
WrittenLen(fh) ==
    LET g == hist.handles[fh]
    IN IF DOMAIN g.written = {} THEN Len(g.seed)
       ELSE Max(Len(g.seed), CHOOSE p \in DOMAIN g.written : \A q \in DOMAIN g.written : q <= p)

\* The byte at position p (from 1) of the temp file of handle fh: the one
\* written last, else the seeded one, else the zero of a gap.
WrittenByte(fh, p) ==
    LET g == hist.handles[fh]
    IN IF p \in DOMAIN g.written THEN g.written[p]
       ELSE IF p <= Len(g.seed) THEN g.seed[p] ELSE 0

WrittenRead(fh, offset, size) ==
    [i \in 1..Max(0, Min(size, WrittenLen(fh) - offset)) |-> WrittenByte(fh, offset + i)]

\* Every read on a handle with a temp file replies the written bytes.
ReadsWritten ==
    \A fh \in DOMAIN open_files :
        open_files[fh].temp =>
            \A offset \in Offsets \cup {2, 3}, size \in ReadSizes :
                ReadReply(fh, offset, size)
                    = [err |-> "", data |-> WrittenRead(fh, offset, size)]

\* A read on a handle with a temp file starts no download and fails none.
ReadStaysLocal ==
    \A fh \in DOMAIN open_files, offset \in Offsets, size \in ReadSizes, timing \in {Arrives, Late} :
        (open_files[fh].temp /\ open_files' = open_files /\ inodes' = inodes
         /\ uploads' = uploads /\ Read(fh, offset, size, timing))
        => UNCHANGED <<prefetch_tasks, netfail, refresh_tasks>>

\* C25: on a handle opened writable, a read at (offset, size) after any
\* writes through the handle returns the bytes written last at those
\* positions, the seeded bytes where nothing was written, from the temp
\* file of the handle and without a network operation.
C25_ReadReturnsWrittenBytes ==
    []ReadsWritten /\ [][ReadStaysLocal]_vars

\* A handle seeded with existing content was written at an offset beyond
\* its first byte; the first byte is still the seeded one.
C25_SeededHandleWritten ==
    \E fh \in DOMAIN open_files :
        /\ open_files[fh].temp
        /\ hist.handles[fh].seed /= <<>>
        /\ DOMAIN hist.handles[fh].written /= {}
        /\ 1 \notin DOMAIN hist.handles[fh].written
        /\ ReadReply(fh, 0, 1).data = <<hist.handles[fh].seed[1]>>

\* ------------------------------------------------------------ range decrypt
\* The plaintext of the whole ciphertext of a returned range call.
WholePlaintext == decrypt_aes_ctr(Ciphertext(call.args.len), call.args.iv).data

RangeReturned == call.fn = "decrypt_aes_ctr_range" /\ call.done

\* C26: the range decrypt of (start, end) is the slice start..=end of the
\* decrypt of the whole ciphertext, with end clamped to the last byte; it
\* is empty when start is at or beyond the length, and an error when
\* start > end.
C26_RangeEqualsSliceOfWhole ==
    RangeReturned =>
        LET a == call.args.start_byte
            b == call.args.end_byte
            len == call.args.len
        IN IF a > b THEN ~call.result.ok /\ call.result.err = "InvalidRange"
           ELSE IF a >= len THEN call.result.ok /\ call.result.data = <<>>
           ELSE /\ call.result.ok
                /\ call.result.data = SubSeq(WholePlaintext, a + 1, Min(b, len - 1) + 1)

\* A range that starts inside the second block, ends beyond the
\* ciphertext, under an IV whose counter wraps.
C26_UnalignedClampedRange ==
    /\ RangeReturned
    /\ call.args.start_byte > AES_BLOCK_SIZE
    /\ call.args.start_byte % AES_BLOCK_SIZE /= 0
    /\ call.args.end_byte >= call.args.len
    /\ call.args.iv.counter = CounterMod - 1
    /\ Len(call.result.data) = call.args.len - call.args.start_byte
    /\ (call.args.len - 1) \div AES_BLOCK_SIZE > call.args.start_byte \div AES_BLOCK_SIZE

\* -------------------------------------------------------- manifest decoding
DecodeReturned ==
    /\ call.done
    /\ call.fn \in {"decrypt_metadata_from_ipfs", "decrypt_folder_metadata",
                    "decrypt_any_folder_metadata"}

\* C27: decoding a manifest whose version tag is not "v2" fails with a
\* deserialization error and yields no manifest, on every decode path.
C27_NonV2ManifestRejected ==
    (DecodeReturned /\ call.args.envelope_ok /\ call.args.sealed.key_ok
     /\ call.args.sealed.version /= "v2")
    => ~call.result.ok

\* ------------------------------------------------------------ publish path
\* The initial manifest mkdir creates for the new folder.
InitialFolderMetadata == FolderMetadata("v2", <<>>)

\* C28: every folder manifest the publish path produces, mkdir's initial
\* manifest and every parent manifest built for a publish, carries the
\* version tag "v2".
C28_PublishedManifestsAreV2 ==
    /\ InitialFolderMetadata.version = "v2"
    /\ \A k \in DOMAIN threads : threads[k].metadata.version = "v2"

\* -------------------------------------------------------------- write queue
ProcessStep == hist'.sync.last = "process" /\ hist' /= hist

\* s is t with some elements left out.
RECURSIVE IsSubSeq(_, _)
IsSubSeq(s, t) ==
    IF s = <<>> THEN TRUE
    ELSE IF t = <<>> THEN FALSE
    ELSE IF Head(s) = Head(t) THEN IsSubSeq(Tail(s), Tail(t))
    ELSE IsSubSeq(s, Tail(t))

\* C29: process hands every item queued at the start of the call to the
\* upload handler exactly once, in the order of enqueueing, and the failed
\* items it retains keep their relative order.
C29_ProcessHandsEachItemOnceInOrder ==
    [][ProcessStep =>
          /\ hist'.sync.handled = QueueIds(write_queue.queue)
          /\ IsSubSeq(QueueIds(write_queue'.queue), QueueIds(write_queue.queue))
          /\ Range(QueueIds(write_queue'.queue)) \subseteq hist'.sync.failed]_vars

\* A process call handled three items, the second succeeded, the first and
\* the third failed and are retained.
C29_TwoRetainedAroundSuccess ==
    /\ hist.sync.last = "process"
    /\ hist.sync.handled = <<1, 2, 3>>
    /\ QueueIds(write_queue.queue) = <<1, 3>>

\* Every queued item has failed as often as it was attempted, within the
\* budget; no item is attempted more than max_retries + 1 times; the queue
\* is empty after max_retries + 1 process calls without an enqueue.
RetriesBounded ==
    /\ \A i \in DOMAIN write_queue.queue :
           LET item == write_queue.queue[i]
           IN /\ item.retries <= write_queue.max_retries
              /\ item.retries = IF item.id \in DOMAIN hist.sync.attempts
                                 THEN hist.sync.attempts[item.id] ELSE 0
    /\ \A id \in DOMAIN hist.sync.attempts :
           hist.sync.attempts[id] <= write_queue.max_retries + 1
    /\ write_queue.queue /= <<>> => hist.sync.calls <= write_queue.max_retries

\* A failed item stays through its first max_retries failures and is
\* dropped by the next one.
DroppedAfterBudget ==
    ProcessStep =>
        \A i \in DOMAIN write_queue.queue :
            LET item == write_queue.queue[i]
                kept == \E j \in DOMAIN write_queue'.queue :
                            write_queue'.queue[j] = [item EXCEPT !.retries = @ + 1]
            IN item.id \in hist'.sync.failed =>
                   IF item.retries < write_queue.max_retries
                   THEN kept
                   ELSE item.id \notin Range(QueueIds(write_queue'.queue))

\* C30: a write whose upload always fails stays queued after each of its
\* first max_retries failed process calls and is dropped on failure number
\* max_retries + 1; every item is attempted at most max_retries + 1 times
\* and the queue is empty after finitely many process calls without a new
\* enqueue.
C30_DroppedAfterMaxRetries ==
    []RetriesBounded /\ [][DroppedAfterBudget]_vars

\* A write was attempted max_retries + 1 times, with max_retries at least
\* one, and is gone from the queue.
C30_WriteDropped ==
    /\ write_queue.max_retries >= 1
    /\ \E id \in DOMAIN hist.sync.attempts :
           /\ hist.sync.attempts[id] = write_queue.max_retries + 1
           /\ id \notin Range(QueueIds(write_queue.queue))
           /\ id \in hist.sync.failed

\* ------------------------------------------------------ upload completions
\* A callback drains the upload channel in this step.
UploadDrained == upload_rx /= <<>> /\ upload_rx' = <<>>

\* After the drain, the cache entry under the address of the completion
\* `result` holds the bytes handed to that upload.
CachedIsUploaded(result) ==
    ContentCacheHit(content_cache', result.new_cid) =>
        content_cache'.entries[result.new_cid].data = uploads[result.new_cid].data

\* After the drain, the content address of the inode of `result` and its
\* wrapped key and IV come from one release.  A release generates the key
\* and the IV together; the inode's key field stands for both and carries
\* the number of the upload of that release, as the address does.
AddressMatchesKey(result) ==
    Has(inodes', result.ino) /\ Get(inodes', result.ino).kind = "File"
    /\ Get(inodes', result.ino).cid /= NoCid
        => Get(inodes', result.ino).key = Get(inodes', result.ino).cid

\* C31: whenever an upload completion is drained, the plaintext cached under
\* the completed address is the plaintext whose ciphertext was uploaded to
\* that address, and the inode's address, wrapped key and IV belong to the
\* same release, also when the inode was released twice before the first
\* upload completed.
C31_DrainedUploadMatchesRelease ==
    [][UploadDrained =>
          \A k \in DOMAIN upload_rx :
              CachedIsUploaded(upload_rx[k]) /\ AddressMatchesKey(upload_rx[k])]_vars

\* --------------------------------------------------- open without a write
\* The bytes of file `ino` as a read on a fresh handle is served them with
\* the table t, the pending map pend and the cache cc: the pending plaintext
\* while the content address is empty, else the cached plaintext, else the
\* blob downloaded from the address.
FileContent(t, pend, cc, ino) ==
    IF Get(t, ino).cid = NoCid
    THEN IF ino \in DOMAIN pend THEN pend[ino] ELSE <<>>
    ELSE IF ContentCacheHit(cc, Get(t, ino).cid) THEN cc.entries[Get(t, ino).cid].data
    ELSE Blob(Get(t, ino).cid)

\* This step releases handle fh, through which nothing was written, while
\* no other handle is open on its file.
CleanRelease(fh) ==
    /\ fh \in DOMAIN open_files
    /\ fh \notin DOMAIN open_files'
    /\ ~open_files[fh].dirty
    /\ \A g \in DOMAIN open_files \ {fh} : open_files[g].ino /= open_files[fh].ino

\* The release leaves the size and the bytes of the file as they were after
\* its drain of the upload completions.
ReleaseKeepsFile(ino) ==
    LET du == drain_upload_completions
    IN Has(du.inodes, ino) /\ Get(du.inodes, ino).kind = "File" =>
           /\ Has(inodes', ino)
           /\ Get(inodes', ino).attr_size = Get(du.inodes, ino).attr_size
           /\ Get(inodes', ino).size = Get(du.inodes, ino).size
           /\ FileContent(inodes', pending_content', content_cache', ino)
                  = FileContent(du.inodes, du.pending_content, du.content_cache, ino)

\* C32: opening a file, read-only or writable, and releasing the handle
\* without a write never changes the file's size or the bytes later reads
\* return, also when the file was opened while the upload of an earlier
\* release was in flight.
C32_CleanReleaseKeepsFile ==
    [][\A fh \in DOMAIN open_files :
          CleanRelease(fh) => ReleaseKeepsFile(open_files[fh].ino)]_vars

\* ------------------------------------------------------- order of publishes
\* Threads i and j published the manifest of the same folder, and the
\* mutation that spawned i came before the one that spawned j (threads are
\* kept in spawn order).
PublishedInTurn(i, j) ==
    /\ i < j
    /\ threads[i].ipns_name = threads[j].ipns_name
    /\ threads[i].pc = "done"
    /\ threads[j].pc = "done"

\* C33: when several publishes for the same folder were queued by successive
\* mutations and all have completed, a snapshot taken earlier is never
\* published with a higher sequence number than a snapshot taken later (no
\* network request having failed or returned a stale or malformed answer).
C33_LaterSnapshotHigherSeq ==
    ~netfail =>
        \A i, j \in DOMAIN threads :
            PublishedInTurn(i, j) => threads[i].seq + 1 < threads[j].seq + 1

\* ------------------------------------------------- published file entries
\* The file entries of a manifest that belong to a released file: release
\* gave the file a key (create leaves the key empty).
ReleasedFiles(metadata) ==
    {e \in Range(metadata.children) : e.type = "file" /\ e.key /= 0}

\* C34: every file child listed in a published folder manifest has a
\* non-empty content address, also when the publish of the parent was
\* triggered while the upload of the file was in flight.
C34_PublishedFilesHaveAddress ==
    \A n \in DOMAIN ns :
        \A k \in DOMAIN ns[n] :
            ns[n][k].local => \A e \in ReleasedFiles(ns[n][k].metadata) : e.cid /= NoCid

\* ---------------------------------------------------- populate and times
\* populate of directory d with `metadata` in the current table bumps the
\* times of d (sets mtime and ctime to the current time) exactly when the
\* list of child ids of d after the call differs from the one before.
BumpsIffListDiffers(d, metadata) ==
    populate_folder_any(inodes, d, metadata).changed
    <=> ChildrenOf(populate_folder_any(inodes, d, metadata).t, d) /= ChildrenOf(inodes, d)

\* C35: populate advances the parent's mtime/ctime if and only if the
\* parent's list of child ids after the call differs from the list before
\* the call; an unchanged list leaves the times untouched.
C35_PopulateBumpsIffChanged ==
    \A d \in DOMAIN inodes.inodes, metadata \in TableManifests :
        IsDir(inodes, d) => BumpsIffListDiffers(d, metadata)

\* A directory with a locally created child for which one manifest only
\* removes the child (the times are bumped), another one adds a child (they
\* are bumped) and a third one reproduces the list (they are not).
C35_RemovalAdditionAndSameList ==
    \E d \in DOMAIN inodes.inodes :
        /\ IsDir(inodes, d)
        /\ \E c \in Range(ChildrenOf(inodes, d)) : c \in hist.local_new
        /\ \E metadata \in TableManifests :
              /\ populate_folder_any(inodes, d, metadata).ok
              /\ populate_folder_any(inodes, d, metadata).changed
              /\ ChildrenOf(populate_folder_any(inodes, d, metadata).t, d) = <<>>
        /\ \E metadata \in TableManifests :
              /\ populate_folder_any(inodes, d, metadata).ok
              /\ populate_folder_any(inodes, d, metadata).changed
              /\ \E c \in Range(ChildrenOf(populate_folder_any(inodes, d, metadata).t, d)) :
                    c \notin Range(ChildrenOf(inodes, d))
        /\ \E metadata \in TableManifests :
              /\ populate_folder_any(inodes, d, metadata).ok
              /\ ~populate_folder_any(inodes, d, metadata).changed

\* ------------------------------------------------------------------ rmdir
\* rmdir, the reply: "" is ok.  A children list of None passes the
\* emptiness test.
rmdir_reply(t, parent, name) ==
    IF find_child(t, parent, name) = 0 THEN "ENOENT"
    ELSE IF ~Has(t, find_child(t, parent, name)) THEN "ENOENT"
    ELSE IF Get(t, find_child(t, parent, name)).kind /= "Folder" THEN "ENOTDIR"
    ELSE IF ChildrenOf(t, find_child(t, parent, name)) /= <<>> THEN "ENOTEMPTY"
    ELSE ""

\* An rmdir that replies NOT-EMPTY or NOT-DIRECTORY leaves the inode table
\* and the publish state as they are.
RmdirRefusalKeepsState ==
    \A p \in Inos, n \in Names :
        (rmdir_reply(inodes, p, n) \in {"ENOTEMPTY", "ENOTDIR"} /\ Rmdir(p, n))
            => UNCHANGED <<inodes, mutated_folders, publish_queue, threads, ns>>

\* This step is an rmdir that removes folder d.
RmdirRemoves(d) ==
    /\ Has(inodes, d)
    /\ ~Has(inodes', d)
    /\ \E p \in Inos, n \in Names : find_child(inodes, p, n) = d /\ Rmdir(p, n)

\* A manifest fetched for directory d, waiting on the refresh channel, lists
\* children.
FetchedManifestListsChildren(d) ==
    \E k \in DOMAIN refresh_rx :
        refresh_rx[k].ino = d /\ refresh_rx[k].metadata.children /= <<>>

\* C36: rmdir removes a directory only if it is empty; for a directory with
\* children it replies NOT-EMPTY and for a regular file NOT-DIRECTORY and
\* leaves the inode table and the publish state unchanged; a directory whose
\* children have not been loaded yet is not removed while its manifest
\* lists children.
C36_RmdirRemovesOnlyEmpty ==
    [][/\ RmdirRefusalKeepsState
       /\ \A d \in DOMAIN inodes.inodes :
             RmdirRemoves(d) =>
                 /\ ChildrenOf(inodes, d) = <<>>
                 /\ ~Get(inodes, d).children_loaded => ~FetchedManifestListsChildren(d)]_vars

\* ------------------------------------------------------------ prefetch set
\* The addresses whose prefetch result waits on the content channel.
ResultsWaiting == {content_rx[k].cid : k \in DOMAIN content_rx}

\* The set holds the addresses whose task is running or whose result has
\* not been drained yet, and after the drain that precedes every use of the
\* set it holds the addresses of the running tasks.
PrefetchSetExact ==
    /\ prefetching = prefetch_tasks \cup ResultsWaiting
    /\ drain_content_prefetches.prefetching = prefetch_tasks

\* No address has two results waiting, or a task running while a result of
\* an earlier task waits.
OneTaskPerAddress ==
    \A cid \in prefetching :
        Cardinality({k \in DOMAIN content_rx : content_rx[k].cid = cid})
            + (IF cid \in prefetch_tasks THEN 1 ELSE 0) = 1

ColdRead(fh) ==
    /\ fh \in DOMAIN open_files
    /\ LET handle == open_files[fh]
           ino == handle.ino
       IN /\ ~handle.temp
          /\ ~handle.cached_some
          /\ Has(inodes, ino)
          /\ Get(inodes, ino).kind = "File"
          /\ Get(inodes, ino).cid /= NoCid
          /\ ino \notin DOMAIN pending_content
          /\ ~ContentCacheHit(drain_content_prefetches.content_cache, Get(inodes, ino).cid)

\* The first poll at which more than max_wait has elapsed.
LastPoll(lag) == (POLL_INTERVAL_MS + lag) * (MAX_WAIT_MS \div (POLL_INTERVAL_MS + lag) + 1)

\* The download succeeds and its result is on the channel by the last poll.
InTime(timing) == timing.ok /\ timing.at <= LastPoll(timing.lag)

\* The polls are one sleep apart, none starts after max_wait, and there are
\* at most 31 of them.
PollBounded(timing) ==
    LET r == read_poll(timing)
        turn == POLL_INTERVAL_MS + timing.lag
    IN /\ r.polls >= 1
       /\ r.polls <= MAX_WAIT_MS \div POLL_INTERVAL_MS + 1
       /\ r.elapsed = r.polls * turn
       /\ r.elapsed - turn <= MAX_WAIT_MS

\* The one reply of the read and its effect on the cache.
PollReplies(fh, offset, size, timing) ==
    LET cid == Get(inodes, open_files[fh].ino).cid
        reply == ReadPollReply(fh, offset, size, timing)
    IN IF InTime(timing)
       THEN /\ reply = [err |-> "", data |-> Slice(Blob(cid), offset, size)]
            /\ ContentCacheHit(content_cache', cid)
            /\ content_cache'.entries[cid].data = Blob(cid)
       ELSE /\ reply = [err |-> "EIO", data |-> <<>>]
            /\ read_poll(timing).elapsed > MAX_WAIT_MS
            /\ ~ContentCacheHit(content_cache', cid)

CreateTempReply(t, parent, name, temp_ok) ==
    IF create_reply(t, parent, name) /= "ok" THEN create_reply(t, parent, name)
    ELSE IF ~temp_ok THEN "EIO" ELSE "ok"

\* The step is a create that replies an error.
CreateFails(parent, name) ==
    \E temp_ok \in BOOLEAN :
        /\ CreateTempReply(inodes, parent, name, temp_ok) /= "ok"
        /\ LookupMisses(inodes, parent, name)
        /\ CreateTemp(parent, name, temp_ok)

\* The step is a mkdir that replies an error.
MkdirFails(parent, name) ==
    \E tee_ok \in BOOLEAN :
        /\ mkdir_reply(inodes, parent, name, tee_ok) /= "ok"
        /\ LookupMisses(inodes, parent, name)
        /\ MkdirTee(parent, name, tee_ok)

\* The inodes with their children lists and the name index are as before.
TableAsBefore ==
    /\ inodes'.inodes = inodes.inodes
    /\ inodes'.name_to_ino = inodes.name_to_ino

\* C39: a mkdir or a create that replies an error leaves the inodes, the
\* parent's children list and the name index as they were before the call.
C39_FailedCallLeavesTable ==
    [][\A parent \in Inos, name \in Names :
          (MkdirFails(parent, name) \/ CreateFails(parent, name)) => TableAsBefore]_vars

\* The part of C39 that holds: a create that replies an error leaves them
\* as they were.
FailedCreateLeavesTable ==
    [][\A parent \in Inos, name \in Names : CreateFails(parent, name) => TableAsBefore]_vars

\* ------------------------------------------------------------------ C40
\* Following parent ids from ino reaches the root within `fuel` steps.  The
\* root, its own parent, is the base case.
RECURSIVE ReachesRoot(_, _, _)
ReachesRoot(t, ino, fuel) ==
    IF ino = ROOT_INO THEN Has(t, ROOT_INO)
    ELSE IF fuel = 0 \/ ~Has(t, ino) THEN FALSE
    ELSE ReachesRoot(t, Get(t, ino).parent_ino, fuel - 1)

\* Following parent ids from ino comes back to ino.
RECURSIVE OnCycle(_, _, _, _)
OnCycle(t, ino, at, fuel) ==
    IF fuel = 0 \/ ~Has(t, at) THEN FALSE
    ELSE IF Get(t, at).parent_ino = ino THEN TRUE
    ELSE OnCycle(t, ino, Get(t, at).parent_ino, fuel - 1)

\* The part of C40 that holds: no inode but the root is its own ancestor.
NoCycle == \A i \in DOMAIN inodes.inodes \ {ROOT_INO} : ~OnCycle(inodes, i, i, MaxIno + 1)

\* C40: following parent ids from any inode of the table reaches the root in
\* finitely many steps.
C40_ParentsLeadToRoot ==
    \A i \in DOMAIN inodes.inodes : ReachesRoot(inodes, i, MaxIno + 1)

====
